---- MODULE Spec2Model ----
(***************************************************************************)
(* Verification model of the Secuval request-security library.             *)
(*                                                                         *)
(* Part 1: the token-bucket rate limiter of src/src/rate_limit.rs.         *)
(*                                                                         *)
(* Time is counted in ticks, TicksPerSec ticks to the second.  The f64     *)
(* token count of a bucket is kept exactly, as an integer number of        *)
(* 1/window-th parts of a token, where window is the bucket's window in    *)
(* ticks: one whole token is `window` units, and since refill_rate =       *)
(* requests / window tokens per tick, one tick refills exactly `requests`  *)
(* units.                                                                   *)
(***************************************************************************)
EXTENDS Integers, Sequences, FiniteSets, TLC

\* ---------------------------------------------------------------- bounds
TicksPerSec   == 2
MaxTime       == 4
MaxChecks     == 4
MaxRequests   == 2
MaxBurst      == 2
MaxWindowSecs == 2

Keys == {"ip-A", "ip-B"}

VARIABLES
    config,          \* RateLimiter.config
    buckets,         \* RateLimiter.buckets: key -> TokenBucket, for the keys present
    global_counter,  \* RateLimiter.global_counter
    now,             \* the monotonic clock read by Instant::now(), in ticks
    calls,           \* per key, the record of the check calls made so far
    validation,      \* InputValidator.config
    context,         \* the SecurityContext handed to the validator
    scan,            \* the validate_string call: its arguments and its outcome
    layer,           \* the pipeline's policy stages: which of them are switched on
    replay,          \* ReplayProtection: enabled, nonce_cache and its limits
    request,         \* the request the pipeline is evaluating
    pc,              \* the position in Stages of the stage to run next, 0 when idle
    executed,        \* the stages run for the request so far, in order
    response,        \* the pipeline's answer to the request, once decided
    served,          \* the number of requests answered so far
    monitor,         \* Monitor: its configuration and security_event_counter
    notified,        \* the calls to the monitor made for the request
    sanitized,       \* the sanitize calls: the input and the outputs so far
    auth,            \* the AuthManager, the request put to it and its answer
    trial,           \* stage operations applied to one request and its context
    sweep,           \* cleanup_old_buckets: its progress over the bucket map
    settings,        \* a SecurityConfig and the builder calls made on it
    nonces,          \* a ReplayProtection, its clock and the nonces presented to it
    stamps,          \* a ReplayProtection, its clock and the timestamps put to it
    asked,           \* a CorsEnforcer and the origins asked about
    errors,          \* an ErrorHandler and the responses built from errors
    store,           \* BlockedRequestsStore.requests and the calls made on the store
    metrics          \* MetricsCollector.history and the summaries it gave

rl_vars   == <<config, buckets, global_counter, now, calls>>
val_vars  == <<validation, context, scan>>
pipe_vars ==
    <<layer, replay, request, pc, executed, response, served, monitor, notified>>
unit_vars == <<sanitized, auth, trial, sweep, settings, nonces>>
tool_vars == <<stamps, asked, errors, store, metrics>>
vars == <<rl_vars, val_vars, pipe_vars, unit_vars, tool_vars>>

\* ---------------------------------------------------------------- helpers
Min(a, b) == IF a <= b THEN a ELSE b
Max(a, b) == IF a >= b THEN a ELSE b
\* f64::ceil of the quotient a / b of two non-negative quantities, b > 0
CeilDiv(a, b) == (a + b - 1) \div b

\* ---------------------------------------------------------------- TokenBucket
\* Duration::from_secs(window_secs), in ticks
WindowTicks(cfg) == cfg.window_secs * TicksPerSec

\* a bucket sized by the request count instead of the burst size
NewBucketSizedByRequests(requests, burst, window, t) ==
    [ tokens      |-> requests * window,
      capacity    |-> requests * window,
      refill_rate |-> requests,
      last_refill |-> t,
      window      |-> window ]

\* TokenBucket::new(requests, burst, window)
NewBucket(requests, burst, window, t) ==
    [ tokens      |-> burst * window,
      capacity    |-> burst * window,
      refill_rate |-> requests,
      last_refill |-> t,
      window      |-> window ]

\* one whole token (the literal 1.0), in the units of b.tokens
OneToken(b) == b.window

\* a refill that does not cap the token count at the capacity
RefillUncapped(b, t) ==
    LET elapsed == IF t >= b.last_refill THEN t - b.last_refill ELSE 0
    IN  IF elapsed > 0
        THEN [b EXCEPT !.tokens = b.tokens + elapsed * b.refill_rate,
                       !.last_refill = t]
        ELSE b

\* a refill that forgets to advance last_refill
RefillKeepsStamp(b, t) ==
    LET elapsed == IF t >= b.last_refill THEN t - b.last_refill ELSE 0
    IN  IF elapsed > 0
        THEN [b EXCEPT !.tokens = Min(b.tokens + elapsed * b.refill_rate, b.capacity)]
        ELSE b

\* TokenBucket::refill at clock reading t
Refill(b, t) ==
    LET elapsed == IF t >= b.last_refill THEN t - b.last_refill ELSE 0
    IN  IF elapsed > 0
        THEN [b EXCEPT !.tokens = Min(b.tokens + elapsed * b.refill_rate, b.capacity),
                       !.last_refill = t]
        ELSE b

\* a consume that admits without taking the token
ConsumeWithoutTaking(b, t) ==
    LET r == Refill(b, t)
    IN  IF r.tokens >= OneToken(r)
        THEN [ok |-> TRUE,  bucket |-> r]
        ELSE [ok |-> FALSE, bucket |-> r]

\* a consume that tests the token count before applying the pending refill
ConsumeBeforeRefill(b, t) ==
    IF b.tokens >= OneToken(b)
    THEN [ok |-> TRUE,  bucket |-> Refill([b EXCEPT !.tokens = b.tokens - OneToken(b)], t)]
    ELSE [ok |-> FALSE, bucket |-> Refill(b, t)]

\* TokenBucket::consume at clock reading t: the verdict and the bucket afterwards
Consume(b, t) ==
    LET r == Refill(b, t)
    IN  IF r.tokens >= OneToken(r)
        THEN [ok |-> TRUE,  bucket |-> [r EXCEPT !.tokens = r.tokens - OneToken(r)]]
        ELSE [ok |-> FALSE, bucket |-> r]

\* a retry hint rounded down instead of up
TimeUntilRefillFloor(b) ==
    LET tokens_needed == OneToken(b) - b.tokens
    IN  IF tokens_needed <= 0
        THEN 0
        ELSE Max(tokens_needed \div (b.refill_rate * TicksPerSec), 1)

\* TokenBucket::time_until_refill, in whole seconds
TimeUntilRefill(b) ==
    LET tokens_needed == OneToken(b) - b.tokens
    IN  IF tokens_needed <= 0
        THEN 0
        ELSE Max(CeilDiv(tokens_needed, b.refill_rate * TicksPerSec), 1)

\* ---------------------------------------------------------------- RateLimiter
\* the bucket check(k) works on: the entry of k, inserted when vacant
EntryOrInsert(k) ==
    IF k \in DOMAIN buckets
    THEN buckets[k]
    ELSE NewBucket(config.requests_per_window, config.burst_size,
                   WindowTicks(config), now)

\* a check that limits even when the configuration is disabled
CheckOutcomeIgnoringEnabled(k) ==
    LET c == Consume(EntryOrInsert(k), now)
    IN  [ ok          |-> c.ok,
          retry_after |-> IF c.ok THEN 0 ELSE TimeUntilRefill(c.bucket),
          buckets     |-> [j \in DOMAIN buckets \cup {k} |->
                              IF j = k THEN c.bucket ELSE buckets[j]],
          counted     |-> c.ok ]

\* RateLimiter::check(identifier): the verdict, the retry hint of a rejection,
\* the bucket map afterwards and whether global_counter is bumped.  The entry
\* guard returned by DashMap::entry is held until check returns, so the whole
\* call is one atomic step with respect to the other calls on the map.
CheckOutcome(k) ==
    IF ~config.enabled
    THEN [ok |-> TRUE, retry_after |-> 0, buckets |-> buckets, counted |-> FALSE]
    ELSE LET c == Consume(EntryOrInsert(k), now)
         IN  [ ok          |-> c.ok,
               retry_after |-> IF c.ok THEN 0 ELSE TimeUntilRefill(c.bucket),
               buckets     |-> [j \in DOMAIN buckets \cup {k} |->
                                   IF j = k THEN c.bucket ELSE buckets[j]],
               counted     |-> c.ok ]

\* the number of check calls made so far, on the keys of S
RECURSIVE TotalCalls(_)
TotalCalls(S) ==
    IF S = {} THEN 0
    ELSE LET k == CHOOSE x \in S : TRUE
         IN  Len(calls[k]) + TotalCalls(S \ {k})

Check(k) ==
    /\ TotalCalls(Keys) < MaxChecks
    /\ LET o == CheckOutcome(k)
       IN  /\ buckets' = o.buckets
           /\ global_counter' = IF o.counted THEN global_counter + 1 ELSE global_counter
           /\ calls' = [calls EXCEPT ![k] =
                           Append(@, [t |-> now, ok |-> o.ok, retry_after |-> o.retry_after])]
    /\ UNCHANGED <<tool_vars, config, now, val_vars, pipe_vars, unit_vars>>

\* the passage of wall-clock time
Tick ==
    /\ now < MaxTime
    /\ now' = now + 1
    /\ UNCHANGED <<tool_vars, config, buckets, global_counter, calls, val_vars, pipe_vars, unit_vars>>

\* RateLimiter::new(config), for the configurations within the bounds
InitRateLimiter ==
    /\ config \in [ enabled             : BOOLEAN,
                    requests_per_window : 1..MaxRequests,
                    burst_size          : 0..MaxBurst,
                    window_secs         : 1..MaxWindowSecs ]
    /\ buckets = << >>
    /\ global_counter = 0
    /\ now = 0
    /\ calls = [k \in Keys |-> << >>]

\* ================================================================ input validation
(***************************************************************************)
(* Part 2: the input validator of src/src/validation.rs.                   *)
(*                                                                         *)
(* Inputs are strings; a character is a string of length 1.  The regex     *)
(* crate is modelled by a matcher over regex terms: Ends(re, s, P) is the  *)
(* set of positions a match of re can end at when it starts at one of the  *)
(* positions P of s (position p is the gap before the p-th character).     *)
(* The patterns are the ones of the build_*_patterns functions; those      *)
(* compiled with (?i) are written in lower case in the source and are      *)
(* matched against the lower-cased subject.                                *)
(***************************************************************************)
MaxFrags == 2

CharAt(s, p) == SubSeq(s, p, p)
CharsOf(s) == {CharAt(s, i) : i \in 1..Len(s)}

UpperAZ == "ABCDEFGHIJKLMNOPQRSTUVWXYZ"
LowerAZ == "abcdefghijklmnopqrstuvwxyz"
Digit == CharsOf("0123456789")
Word  == CharsOf(UpperAZ) \cup CharsOf(LowerAZ) \cup Digit \cup {"_"}
Space == {" ", "\t", "\n", "\r", "\f"}
\* the grave accent, which a TLA+ string cannot hold; the acute accent stands for it
Backtick == "´"

\* char::to_lowercase, on ASCII
LowerOf == [c \in CharsOf(UpperAZ) |->
               CharAt(LowerAZ, CHOOSE i \in 1..Len(UpperAZ) : CharAt(UpperAZ, i) = c)]
LowerChar(c) == IF c \in DOMAIN LowerOf THEN LowerOf[c] ELSE c

\* str::to_lowercase, on ASCII
RECURSIVE ToLowercase(_)
ToLowercase(s) ==
    IF Len(s) = 0 THEN s ELSE LowerChar(Head(s)) \o ToLowercase(Tail(s))

\* char::to_uppercase and str::to_uppercase, on ASCII
UpperChar(c) ==
    IF c \in CharsOf(LowerAZ)
    THEN CharAt(UpperAZ, CHOOSE i \in 1..Len(LowerAZ) : CharAt(LowerAZ, i) = c)
    ELSE c
RECURSIVE ToUppercase(_)
ToUppercase(s) ==
    IF Len(s) = 0 THEN s ELSE UpperChar(Head(s)) \o ToUppercase(Tail(s))

\* str::starts_with, str::ends_with and str::contains
StartsWith(s, prefix) ==
    Len(s) >= Len(prefix) /\ SubSeq(s, 1, Len(prefix)) = prefix
EndsWith(s, suffix) ==
    Len(s) >= Len(suffix) /\ SubSeq(s, Len(s) - Len(suffix) + 1, Len(s)) = suffix
HasSubstring(s, sub) ==
    \E p \in 1..(Len(s) - Len(sub) + 1) : SubSeq(s, p, p + Len(sub) - 1) = sub

\* str::split(sep) for a character sep: the pieces, in order
RECURSIVE SplitFrom(_, _, _)
SplitFrom(s, sep, piece) ==
    IF s = "" THEN <<piece>>
    ELSE IF Head(s) = sep THEN <<piece>> \o SplitFrom(Tail(s), sep, "")
    ELSE SplitFrom(Tail(s), sep, piece \o Head(s))
Split(s, sep) == SplitFrom(s, sep, "")

\* char::is_whitespace, on ASCII
Whitespace == {" ", "\t", "\n", "\f", "\r"}

\* str::trim_start_matches and str::trim_end_matches for a set of characters
RECURSIVE TrimStartChars(_, _)
TrimStartChars(s, cs) ==
    IF s # "" /\ Head(s) \in cs THEN TrimStartChars(Tail(s), cs) ELSE s
RECURSIVE TrimEndChars(_, _)
TrimEndChars(s, cs) ==
    IF s # "" /\ CharAt(s, Len(s)) \in cs
    THEN TrimEndChars(SubSeq(s, 1, Len(s) - 1), cs)
    ELSE s

\* str::trim
Trim(s) == TrimEndChars(TrimStartChars(s, Whitespace), Whitespace)

\* str::trim_start_matches for a string pattern
RECURSIVE TrimStartMatches(_, _)
TrimStartMatches(s, pat) ==
    IF pat # "" /\ StartsWith(s, pat)
    THEN TrimStartMatches(SubSeq(s, Len(pat) + 1, Len(s)), pat)
    ELSE s

\* str::matches(c).count() for a character c
CountChar(s, c) == Cardinality({i \in 1..Len(s) : CharAt(s, i) = c})

\* regex terms
Unbounded == -1
Lit(str)       == [t |-> "lit", s |-> str]
OneOf(cs)      == [t |-> "set", cs |-> cs, neg |-> FALSE]
NoneOf(cs)     == [t |-> "set", cs |-> cs, neg |-> TRUE]
AnyChar        == [t |-> "any"]
WordBoundary   == [t |-> "wb"]
Cat(xs)        == [t |-> "cat", xs |-> xs]
Alt(xs)        == [t |-> "alt", xs |-> xs]
Rep(x, lo, hi) == [t |-> "rep", x |-> x, min |-> lo, max |-> hi]
Star(x)        == Rep(x, 0, Unbounded)
Plus(x)        == Rep(x, 1, Unbounded)
Opt(x)         == Rep(x, 0, 1)
Regex(ci, re)  == [ci |-> ci, re |-> re]

IsWordAt(s, p) == p >= 1 /\ p <= Len(s) /\ CharAt(s, p) \in Word

RECURSIVE Ends(_, _, _), CatEnds(_, _, _, _), RepMin(_, _, _, _), RepMore(_, _, _, _, _)
Ends(re, s, P) ==
    CASE re.t = "lit" ->
            {p + Len(re.s) : p \in {q \in P : /\ q + Len(re.s) - 1 <= Len(s)
                                              /\ SubSeq(s, q, q + Len(re.s) - 1) = re.s}}
      [] re.t = "set" ->
            {p + 1 : p \in {q \in P : q <= Len(s) /\ ((CharAt(s, q) \in re.cs) # re.neg)}}
      [] re.t = "any" ->
            {p + 1 : p \in {q \in P : q <= Len(s) /\ CharAt(s, q) # "\n"}}
      [] re.t = "wb"  -> {q \in P : IsWordAt(s, q - 1) # IsWordAt(s, q)}
      [] re.t = "cat" -> CatEnds(re.xs, 1, s, P)
      [] re.t = "alt" -> UNION {Ends(re.xs[i], s, P) : i \in 1..Len(re.xs)}
      [] re.t = "rep" -> RepMin(re, 0, s, P)

\* the terms xs[i], xs[i+1], ... one after the other
CatEnds(xs, i, s, P) ==
    IF i > Len(xs) \/ P = {} THEN P ELSE CatEnds(xs, i + 1, s, Ends(xs[i], s, P))

\* the mandatory repetitions of re.x, n of them done
RepMin(re, n, s, P) ==
    IF P = {} THEN {}
    ELSE IF n < re.min THEN RepMin(re, n + 1, s, Ends(re.x, s, P))
    ELSE RepMore(re, n, s, P, P)

\* the optional repetitions of re.x: acc is reached, F was reached last
RepMore(re, n, s, acc, F) ==
    IF F = {} \/ (re.max # Unbounded /\ n >= re.max)
    THEN acc
    ELSE LET nx == Ends(re.x, s, F) \ acc
         IN  RepMore(re, n + 1, s, acc \cup nx, nx)

\* Regex::is_match: an unanchored search
IsMatch(rx, s) ==
    LET subj == IF rx.ci THEN ToLowercase(s) ELSE s
    IN  Ends(rx.re, subj, 1..(Len(subj) + 1)) # {}

AnyMatch(patterns, s) == \E i \in 1..Len(patterns) : IsMatch(patterns[i], s)

\* InputValidator::build_sql_patterns
SqlPatterns == <<
    Regex(TRUE, Cat(<<WordBoundary, Lit("union"), Plus(AnyChar), Lit("select")>>)),
    Regex(TRUE, Cat(<<Lit("drop"), Plus(OneOf(Space)), Alt(<<Lit("table"), Lit("database")>>)>>)),
    Regex(TRUE, Cat(<<Lit("'"), Star(OneOf(Space)), Lit("or"), Plus(OneOf(Space)), Opt(Lit("'")), Plus(OneOf(Digit)), Opt(Lit("'")), Star(OneOf(Space)), Lit("="), Star(OneOf(Space)), Opt(Lit("'")), Plus(OneOf(Digit))>>)),
    Regex(TRUE, Cat(<<Lit("'"), Star(OneOf(Space)), Lit("or"), Plus(OneOf(Space)), Opt(Lit("'")), Plus(OneOf(Word)), Lit("'"), Star(OneOf(Space)), Lit("="), Star(OneOf(Space)), Opt(Lit("'")), Plus(OneOf(Word))>>)),
    Regex(TRUE, Cat(<<Opt(Lit(";")), Star(OneOf(Space)), Lit("--")>>)),
    Regex(TRUE, Cat(<<Opt(Lit(";")), Star(OneOf(Space)), Lit("#")>>)),
    Regex(TRUE, Lit("/**/")),
    Regex(TRUE, Cat(<<Lit("'"), Star(OneOf(Space)), Lit(";"), Star(OneOf(Space)), Lit("drop")>>)),
    Regex(TRUE, Cat(<<Lit("'"), Star(OneOf(Space)), Lit(";"), Star(OneOf(Space)), Lit("select")>>)),
    Regex(TRUE, Cat(<<Lit("exec"), Star(OneOf(Space)), Lit("(")>>)),
    Regex(TRUE, Cat(<<Lit("execute"), Star(OneOf(Space)), Lit("(")>>)),
    Regex(TRUE, Lit("xp_cmdshell")),
    Regex(TRUE, Lit("sp_executesql")),
    Regex(TRUE, Lit("information_schema")),
    Regex(TRUE, Lit("sysobjects")),
    Regex(TRUE, Lit("syscolumns"))
>>

\* InputValidator::build_xss_patterns
XssPatterns == <<
    Regex(TRUE, Lit("<script")),
    Regex(TRUE, Cat(<<Lit("on"), Alt(<<Lit("click"), Lit("error"), Lit("load"), Lit("mouseover"), Lit("mouseout"), Lit("keydown"), Lit("keyup"), Lit("keypress"), Lit("submit"), Lit("change"), Lit("focus"), Lit("blur")>>), Star(OneOf(Space)), Lit("=")>>)),
    Regex(TRUE, Lit("javascript:")),
    Regex(TRUE, Lit("vbscript:")),
    Regex(TRUE, Lit("data:text/html")),
    Regex(TRUE, Lit("<iframe")),
    Regex(TRUE, Cat(<<Lit("<"), Alt(<<Lit("object"), Lit("embed")>>)>>)),
    Regex(TRUE, Cat(<<Lit("<meta"), Star(AnyChar), Lit("url=javascript")>>)),
    Regex(TRUE, Cat(<<Lit("expression"), Star(OneOf(Space)), Lit("(")>>)),
    Regex(TRUE, Cat(<<Lit("javascript:"), Star(OneOf(Space)), Lit("expression")>>)),
    Regex(TRUE, Cat(<<Lit("<img"), Star(NoneOf({">"})), WordBoundary, Lit("onerror"), Star(OneOf(Space)), Lit("=")>>)),
    Regex(TRUE, Cat(<<Lit("<link"), Star(NoneOf({">"})), OneOf(Space), Lit("href"), Star(OneOf(Space)), Lit("="), Star(OneOf(Space)), Lit("javascript:")>>))
>>

\* InputValidator::build_command_patterns
CommandPatterns == <<
    Regex(FALSE, Cat(<<Lit(";"), Star(OneOf(Space)), Alt(<<Lit("/bin"), Lit("/usr"), Lit("/sbin")>>)>>)),
    Regex(FALSE, Cat(<<Lit(";"), Star(OneOf(Space)), Alt(<<Lit("rm"), Lit("ls"), Lit("cat"), Lit("echo"), Lit("wget"), Lit("curl"), Lit("nc"), Lit("netcat"), Lit("nmap"), Lit("ping")>>)>>)),
    Regex(FALSE, Cat(<<Lit("|"), Star(OneOf(Space)), Alt(<<Lit("/bin"), Lit("/usr"), Lit("/sbin")>>)>>)),
    Regex(FALSE, Cat(<<Lit("|"), Star(OneOf(Space)), Alt(<<Lit("rm"), Lit("ls"), Lit("cat"), Lit("echo"), Lit("wget"), Lit("curl"), Lit("nc"), Lit("netcat"), Lit("nmap"), Lit("ping")>>)>>)),
    Regex(FALSE, Cat(<<Alt(<<Lit("&&"), Lit("||")>>), Star(OneOf(Space)), Alt(<<Lit("/bin"), Lit("/usr"), Lit("/sbin")>>)>>)),
    Regex(FALSE, Cat(<<Alt(<<Lit("&&"), Lit("||")>>), Star(OneOf(Space)), Alt(<<Lit("rm"), Lit("ls"), Lit("cat"), Lit("echo"), Lit("wget"), Lit("curl"), Lit("nc"), Lit("netcat"), Lit("nmap"), Lit("ping")>>)>>)),
    Regex(FALSE, Cat(<<Lit(Backtick), Star(NoneOf({Backtick})), Lit(Backtick)>>)),
    Regex(FALSE, Cat(<<Lit("$("), Star(NoneOf({")"})), Lit(")")>>)),
    Regex(FALSE, Cat(<<OneOf({"<", ">"}), Star(OneOf(Space)), Alt(<<Lit("/etc"), Lit("/proc"), Lit("/home"), Lit("/root"), Lit("/var")>>)>>)),
    Regex(FALSE, Cat(<<Lit(";"), Star(OneOf(Space)), Lit("rm"), OneOf(Space)>>)),
    Regex(FALSE, Cat(<<Lit(";"), Star(OneOf(Space)), Lit("cat"), OneOf(Space)>>)),
    Regex(FALSE, Cat(<<Lit(";"), Star(OneOf(Space)), Lit("wget"), OneOf(Space)>>)),
    Regex(FALSE, Cat(<<Lit(";"), Star(OneOf(Space)), Lit("curl"), OneOf(Space)>>)),
    Regex(FALSE, Lit("%00")),
    Regex(FALSE, Lit("\\x00"))
>>

\* InputValidator::build_path_traversal_patterns
PathTraversalPatterns == <<
    Regex(FALSE, Rep(Lit("../"), 2, Unbounded)),
    Regex(FALSE, Rep(Lit("..\\"), 2, Unbounded)),
    Regex(FALSE, Rep(Cat(<<Lit(".."), OneOf({"/", "\\"})>>), 2, Unbounded)),
    Regex(FALSE, Cat(<<Lit("%2e%2e"), OneOf({"/", "\\"})>>)),
    Regex(FALSE, Lit("%2e%2e%2f")),
    Regex(FALSE, Lit("%2e%2e%5c")),
    Regex(FALSE, Lit("%252e%252e")),
    Regex(FALSE, Lit("/etc/")),
    Regex(FALSE, Lit("/proc/")),
    Regex(FALSE, Lit("/home/")),
    Regex(FALSE, Lit("/root/")),
    Regex(FALSE, Lit("/var/")),
    Regex(FALSE, Lit("\\windows\\")),
    Regex(FALSE, Lit("\\system32\\")),
    Regex(FALSE, Lit("c:\\")),
    Regex(FALSE, Lit("%2fetc%2f")),
    Regex(FALSE, Lit("%5cwindows%5c"))
>>

\* InputValidator::contains_sql_injection
ContainsSqlInjection(input) == AnyMatch(SqlPatterns, ToLowercase(input))

\* a scan for script tags and the like that is case-sensitive
ContainsXssCaseSensitive(input) ==
    \E i \in 1..Len(XssPatterns) : IsMatch(Regex(FALSE, XssPatterns[i].re), input)

\* InputValidator::contains_xss
ContainsXss(input) == AnyMatch(XssPatterns, ToLowercase(input))

\* InputValidator::contains_command_injection
ContainsCommandInjection(input) == AnyMatch(CommandPatterns, input)

\* InputValidator::contains_path_traversal
ContainsPathTraversal(input) == AnyMatch(PathTraversalPatterns, input)

\* the SecurityResult values
Ok == [kind |-> "Ok", reason |-> "", field |-> "", retry_after |-> 0]
InvalidInput(reason, field) ==
    [kind |-> "InvalidInput", reason |-> reason, field |-> field, retry_after |-> 0]
NoResult == [kind |-> "none", reason |-> "", field |-> "", retry_after |-> 0]

\* SecurityContext::new: the context of a request of the given client
NewContext(client_ip) ==
    [client_ip |-> client_ip, threat_score |-> 0, metadata |-> << >>]

\* SecurityContext::add_threat_score
AddThreatScore(ctx, score) == [ctx EXCEPT !.threat_score = @ + score]

\* a validate_string that looks for XSS before SQL injection
ValidateStringXssFirst(vc, input, field_name, ctx) ==
    IF vc.xss_check /\ ContainsXss(input)
    THEN [ result    |-> InvalidInput("Potential XSS attack detected", field_name),
           context   |-> AddThreatScore(ctx, 35),
           evaluated |-> <<"xss">> ]
    ELSE IF vc.sql_injection_check /\ ContainsSqlInjection(input)
    THEN [ result    |-> InvalidInput("Potential SQL injection detected", field_name),
           context   |-> AddThreatScore(ctx, 40),
           evaluated |-> (IF vc.xss_check THEN <<"xss">> ELSE << >>) \o <<"sql">> ]
    ELSE IF vc.command_injection_check /\ ContainsCommandInjection(input)
    THEN [ result    |-> InvalidInput("Potential command injection detected", field_name),
           context   |-> AddThreatScore(ctx, 45),
           evaluated |-> (IF vc.xss_check THEN <<"xss">> ELSE << >>)
                         \o (IF vc.sql_injection_check THEN <<"sql">> ELSE << >>)
                         \o <<"command">> ]
    ELSE IF vc.path_traversal_check /\ ContainsPathTraversal(input)
    THEN [ result    |-> InvalidInput("Potential path traversal detected", field_name),
           context   |-> AddThreatScore(ctx, 30),
           evaluated |-> (IF vc.xss_check THEN <<"xss">> ELSE << >>)
                         \o (IF vc.sql_injection_check THEN <<"sql">> ELSE << >>)
                         \o (IF vc.command_injection_check THEN <<"command">> ELSE << >>)
                         \o <<"path">> ]
    ELSE [ result    |-> Ok,
           context   |-> ctx,
           evaluated |-> (IF vc.xss_check THEN <<"xss">> ELSE << >>)
                         \o (IF vc.sql_injection_check THEN <<"sql">> ELSE << >>)
                         \o (IF vc.command_injection_check THEN <<"command">> ELSE << >>)
                         \o (IF vc.path_traversal_check THEN <<"path">> ELSE << >>) ]

\* InputValidator::validate_string: the result, the context afterwards and the
\* categories whose patterns were run against the input, in the order they ran
ValidateString(vc, input, field_name, ctx) ==
    LET ran_sql  == IF vc.sql_injection_check THEN <<"sql">> ELSE << >>
        ran_xss  == ran_sql \o (IF vc.xss_check THEN <<"xss">> ELSE << >>)
        ran_cmd  == ran_xss \o (IF vc.command_injection_check THEN <<"command">> ELSE << >>)
        ran_path == ran_cmd \o (IF vc.path_traversal_check THEN <<"path">> ELSE << >>)
    IN  IF vc.sql_injection_check /\ ContainsSqlInjection(input)
        THEN [ result    |-> InvalidInput("Potential SQL injection detected", field_name),
               context   |-> AddThreatScore(ctx, 40),
               evaluated |-> ran_sql ]
        ELSE IF vc.xss_check /\ ContainsXss(input)
        THEN [ result    |-> InvalidInput("Potential XSS attack detected", field_name),
               context   |-> AddThreatScore(ctx, 35),
               evaluated |-> ran_xss ]
        ELSE IF vc.command_injection_check /\ ContainsCommandInjection(input)
        THEN [ result    |-> InvalidInput("Potential command injection detected", field_name),
               context   |-> AddThreatScore(ctx, 45),
               evaluated |-> ran_cmd ]
        ELSE IF vc.path_traversal_check /\ ContainsPathTraversal(input)
        THEN [ result    |-> InvalidInput("Potential path traversal detected", field_name),
               context   |-> AddThreatScore(ctx, 30),
               evaluated |-> ran_path ]
        ELSE [ result |-> Ok, context |-> ctx, evaluated |-> ran_path ]

\* the ASCII characters 0x20 to 0x7E in order (Backtick stands at 0x60)
Printable ==
    " !\"#$%&'()*+,-./0123456789:;<=>?@ABCDEFGHIJKLMNOPQRSTUVWXYZ[\\]^_"
    \o Backtick \o "abcdefghijklmnopqrstuvwxyz{|}~"
\* a control character other than tab, line feed, form feed and carriage
\* return, none of which a TLA+ string can hold; the pilcrow stands for them
ControlChar == "¶"

\* the position of character c in string str, 0 when it is not there
IndexIn(str, c) ==
    IF \E i \in 1..Len(str) : CharAt(str, i) = c
    THEN CHOOSE i \in 1..Len(str) : CharAt(str, i) = c
    ELSE 0

\* the value of a hexadecimal digit, -1 for any other character
HexVal(c) == IndexIn("0123456789abcdef", LowerChar(c)) - 1

\* the character of an ASCII byte
ByteChar(v) ==
    IF v >= 32 /\ v <= 126 THEN CharAt(Printable, v - 31)
    ELSE CASE v = 9 -> "\t" [] v = 10 -> "\n" [] v = 12 -> "\f" [] v = 13 -> "\r"
           [] OTHER -> ControlChar

\* the ASCII byte of a character
CharByte(c) ==
    IF IndexIn(Printable, c) > 0 THEN IndexIn(Printable, c) + 31
    ELSE CASE c = "\t" -> 9 [] c = "\n" -> 10 [] c = "\f" -> 12 [] c = "\r" -> 13
           [] OTHER -> 1

\* the bytes a percent-encoded string decodes to: %XX with two hexadecimal
\* digits is one byte, every other character stands for itself
RECURSIVE PercentDecode(_)
PercentDecode(s) ==
    IF Len(s) = 0 THEN << >>
    ELSE IF /\ Head(s) = "%" /\ Len(s) >= 3
            /\ HexVal(CharAt(s, 2)) >= 0 /\ HexVal(CharAt(s, 3)) >= 0
    THEN <<16 * HexVal(CharAt(s, 2)) + HexVal(CharAt(s, 3))>>
             \o PercentDecode(SubSeq(s, 4, Len(s)))
    ELSE <<CharByte(Head(s))>> \o PercentDecode(Tail(s))

RECURSIVE BytesToString(_)
BytesToString(bs) ==
    IF Len(bs) = 0 THEN "" ELSE ByteChar(Head(bs)) \o BytesToString(Tail(bs))

\* urlencoding::decode: the decoded string, or an error when the bytes are
\* not UTF-8 (here: when a byte is not ASCII; the inputs of the model hold
\* no multi-byte sequence)
UrlDecode(s) ==
    LET bs == PercentDecode(s)
    IN  IF \E i \in 1..Len(bs) : bs[i] >= 128
        THEN [ok |-> FALSE, s |-> ""]
        ELSE [ok |-> TRUE, s |-> BytesToString(bs)]

\* str::parse::<usize>: decimal digits after an optional plus sign
RECURSIVE DigitsValue(_, _)
DigitsValue(s, acc) ==
    IF Len(s) = 0 THEN acc
    ELSE DigitsValue(Tail(s), 10 * acc + IndexIn("0123456789", Head(s)) - 1)

ParseUsize(s) ==
    LET digits == IF Len(s) > 0 /\ Head(s) = "+" THEN Tail(s) ELSE s
    IN  IF Len(digits) > 0 /\ \A i \in 1..Len(digits) : CharAt(digits, i) \in Digit
        THEN [ok |-> TRUE, n |-> DigitsValue(digits, 0)]
        ELSE [ok |-> FALSE, n |-> 0]

\* a request: the client it comes from, its method and version, its path, its query string when it
\* has one, its headers in the order the header map yields them, each
\* [name, value], the nonce it presents when it presents one, and the policy
\* stages whose check it fails; header values are visible ASCII, so
\* HeaderValue::to_str succeeds on them
NoRequest ==
    [ client |-> "", method |-> "GET", version |-> "HTTP/1.1", path |-> "",
      has_query |-> FALSE, query |-> "", headers |-> << >>,
      has_nonce |-> FALSE, nonce |-> "", faults |-> {}, suspicion |-> 0 ]

\* Uri::to_string
UriString(req) == IF req.has_query THEN req.path \o "?" \o req.query ELSE req.path

\* HeaderMap::get: the value of the first header of the given name
HasHeader(req, name) == \E i \in 1..Len(req.headers) : req.headers[i].name = name
GetHeader(req, name) ==
    req.headers[CHOOSE i \in 1..Len(req.headers) :
                    /\ req.headers[i].name = name
                    /\ \A j \in 1..(i - 1) : req.headers[j].name # name].value

\* a byte above 0x7F of a header value, which a TLA+ string cannot hold
HighByte == "ÿ"

\* HeaderValue::to_str: the value, when it is visible ASCII all through
ToStrOk(value) ==
    \A i \in 1..Len(value) : CharAt(value, i) \in CharsOf(Printable) \cup {"\t"}

\* validate_request, the header loop from the i-th header on; a value that
\* to_str turns down is passed over
RECURSIVE ValidateHeaders(_, _, _, _, _)
ValidateHeaders(vc, req, i, ctx, scanned) ==
    IF i > Len(req.headers)
    THEN [result |-> Ok, context |-> ctx, scanned |-> scanned]
    ELSE LET h == req.headers[i]
         IN  IF ~ToStrOk(h.value)
             THEN ValidateHeaders(vc, req, i + 1, ctx, scanned)
             ELSE IF Len(h.value) > vc.max_header_size
             THEN [ result  |-> InvalidInput("Header value too large", h.name),
                    context |-> ctx, scanned |-> scanned ]
             ELSE LET v == ValidateString(vc, h.value, h.name, ctx)
                  IN  IF v.result # Ok
                      THEN [ result |-> v.result, context |-> v.context,
                             scanned |-> Append(scanned, h.value) ]
                      ELSE ValidateHeaders(vc, req, i + 1, v.context,
                                           Append(scanned, h.value))

\* validate_request, the query part
ValidateQuery(vc, req, ctx, scanned) ==
    IF ~req.has_query
    THEN [result |-> Ok, context |-> ctx, scanned |-> scanned]
    ELSE LET decoded == UrlDecode(req.query)
             d == IF decoded.ok
                  THEN ValidateString(vc, decoded.s, "query", ctx)
                  ELSE [result |-> Ok, context |-> ctx, evaluated |-> << >>]
             after_d == IF decoded.ok THEN Append(scanned, decoded.s) ELSE scanned
         IN  IF d.result # Ok
             THEN [result |-> d.result, context |-> d.context, scanned |-> after_d]
             ELSE LET r == ValidateString(vc, req.query, "query", d.context)
                  IN  [ result |-> r.result, context |-> r.context,
                        scanned |-> Append(after_d, req.query) ]

\* validate_request turning away a request whose context carries a score above 30
ValidateRequestBlocksOnScore(vc, req, ctx) ==
    IF ~vc.enabled
    THEN [result |-> Ok, context |-> ctx, scanned |-> << >>]
    ELSE IF ctx.threat_score > 30
    THEN [ result  |-> InvalidInput("Threat score too high", "request"),
           context |-> ctx, scanned |-> << >> ]
    ELSE IF /\ HasHeader(req, "content-length")
            /\ ParseUsize(GetHeader(req, "content-length")).ok
            /\ ParseUsize(GetHeader(req, "content-length")).n > vc.max_payload_size
    THEN [ result  |-> InvalidInput(
                          "Payload size "
                              \o ToString(ParseUsize(GetHeader(req, "content-length")).n)
                              \o " exceeds maximum " \o ToString(vc.max_payload_size),
                          "body"),
           context |-> ctx, scanned |-> << >> ]
    ELSE LET u == ValidateString(vc, UriString(req), "uri", ctx)
         IN  IF u.result # Ok
             THEN [result |-> u.result, context |-> u.context, scanned |-> <<UriString(req)>>]
             ELSE LET h == ValidateHeaders(vc, req, 1, u.context, <<UriString(req)>>)
                  IN  IF h.result # Ok
                      THEN h
                      ELSE ValidateQuery(vc, req, h.context, h.scanned)

\* InputValidator::validate_request: the result, the context afterwards and
\* the strings the injection patterns were run against, in order
ValidateRequest(vc, req, ctx) ==
    IF ~vc.enabled
    THEN [result |-> Ok, context |-> ctx, scanned |-> << >>]
    ELSE IF /\ HasHeader(req, "content-length")
            /\ ParseUsize(GetHeader(req, "content-length")).ok
            /\ ParseUsize(GetHeader(req, "content-length")).n > vc.max_payload_size
    THEN [ result  |-> InvalidInput(
                          "Payload size "
                              \o ToString(ParseUsize(GetHeader(req, "content-length")).n)
                              \o " exceeds maximum " \o ToString(vc.max_payload_size),
                          "body"),
           context |-> ctx, scanned |-> << >> ]
    ELSE LET u == ValidateString(vc, UriString(req), "uri", ctx)
         IN  IF u.result # Ok
             THEN [result |-> u.result, context |-> u.context, scanned |-> <<UriString(req)>>]
             ELSE LET h == ValidateHeaders(vc, req, 1, u.context, <<UriString(req)>>)
                  IN  IF h.result # Ok
                      THEN h
                      ELSE ValidateQuery(vc, req, h.context, h.scanned)

\* the pieces the inputs are put together from
Fragments ==
    { "a", "<script", "<ScRiPt>", "' OR '1'='1", "--", "UNION ", "SELECT",
      "; rm ", "../", "/etc/" }

\* the inputs made of at most n fragments
RECURSIVE Concats(_)
Concats(n) ==
    IF n = 0 THEN {""}
    ELSE LET shorter == Concats(n - 1)
         IN  shorter \cup {p \o f : p \in shorter, f \in Fragments}

Inputs == Concats(MaxFrags)
FieldNames == {"uri", "query"}
InitialScores == {0, 25}

\* ValidationConfig::default
DefaultMaxPayloadSize == 10 * 1024 * 1024
DefaultMaxHeaderSize  == 8 * 1024
DefaultValidationConfig ==
    [ enabled                 |-> TRUE,
      sql_injection_check     |-> TRUE,
      xss_check               |-> TRUE,
      command_injection_check |-> TRUE,
      path_traversal_check    |-> TRUE,
      sanitize_input          |-> TRUE,
      max_payload_size        |-> DefaultMaxPayloadSize,
      max_header_size         |-> DefaultMaxHeaderSize ]

\* a call of validate_string(input, field_name, context)
ValidateStringCall ==
    /\ scan.result = NoResult
    /\ LET v == ValidateString(validation, scan.input, scan.field_name, context)
       IN  /\ scan' = [scan EXCEPT !.result = v.result, !.evaluated = v.evaluated]
           /\ context' = v.context
    /\ UNCHANGED <<tool_vars, validation, rl_vars, pipe_vars, unit_vars>>

\* InputValidator::new(config) and the arguments of the call to come
InitValidator ==
    /\ validation \in [ enabled                 : {TRUE},
                        sql_injection_check     : BOOLEAN,
                        xss_check               : BOOLEAN,
                        command_injection_check : BOOLEAN,
                        path_traversal_check    : BOOLEAN,
                        sanitize_input          : {TRUE},
                        max_payload_size        : {DefaultMaxPayloadSize},
                        max_header_size         : {DefaultMaxHeaderSize} ]
    /\ context \in [client_ip : {""}, threat_score : InitialScores, metadata : {<< >>}]
    /\ scan \in [ input        : Inputs,
                  field_name   : FieldNames,
                  score_before : {context.threat_score},
                  result       : {NoResult},
                  evaluated    : {<< >>} ]

\* ---------------------------------------------------------------- sanitize
MaxSanitizeLen == 3

\* the NUL character, which a TLA+ string cannot hold: a character of its
\* own stands in for it
Nul == "¤"

\* the characters the inputs of sanitize are made of
SanitizeAlphabet == {"a", ";", "&", "<", ">", "\"", "'", Nul}

\* the strings of at most n characters of the alphabet
RECURSIVE StringsUpTo(_)
StringsUpTo(n) ==
    IF n = 0 THEN {""}
    ELSE LET shorter == StringsUpTo(n - 1)
         IN  shorter \cup {p \o c : p \in shorter, c \in SanitizeAlphabet}

\* str::replace(from, to) for a character from
RECURSIVE Replace(_, _, _)
Replace(s, from, to) ==
    IF s = "" THEN ""
    ELSE (IF Head(s) = from THEN to ELSE Head(s)) \o Replace(Tail(s), from, to)

\* InputValidator::sanitize
Sanitize(vc, input) ==
    IF ~vc.sanitize_input
    THEN input
    ELSE LET no_nul == Replace(input, Nul, "")
             amp    == Replace(no_nul, "&", "&amp;")
             lt     == Replace(amp, "<", "&lt;")
             gt     == Replace(lt, ">", "&gt;")
             quot   == Replace(gt, "\"", "&quot;")
         IN  Replace(quot, "'", "&#x27;")

\* a call of sanitize, on the input first and then on what the call before
\* it returned
SanitizeCall ==
    /\ Len(sanitized.outputs) < 2
    /\ sanitized' = [sanitized EXCEPT !.outputs =
                        Append(@, Sanitize(validation,
                                           IF @ = << >> THEN sanitized.input
                                           ELSE @[Len(@)]))]
    /\ UNCHANGED <<tool_vars, rl_vars, val_vars, pipe_vars, auth, trial, sweep, settings, nonces>>

\* InputValidator::new(config) with sanitize_input either way, and the input
InitSanitizer ==
    /\ validation \in {[DefaultValidationConfig EXCEPT !.sanitize_input = b] :
                          b \in BOOLEAN}
    /\ context = NewContext("")
    /\ scan = [ input |-> "", field_name |-> "", score_before |-> 0,
                result |-> NoResult, evaluated |-> << >> ]
    /\ sanitized \in [input : StringsUpTo(MaxSanitizeLen), outputs : {<< >>}]

\* ================================================================ replay protection
(***************************************************************************)
(* Part 3: the nonce cache of src/src/replay_protection.rs.                *)
(***************************************************************************)
MinNonceLen            == 16
MaxNonceLen            == 256
DefaultTimestampWindow == 300
DefaultMaxNoncesPerIp  == 1000

ReplayDetected(reason) ==
    [kind |-> "ReplayDetected", reason |-> reason, field |-> "", retry_after |-> 0]

\* char::is_ascii_alphanumeric
AsciiAlphanumeric == CharsOf(UpperAZ) \cup CharsOf(LowerAZ) \cup Digit

\* ReplayProtection::new.  The cache is kept in two parts: nonce_cache maps
\* the keys that are followed one by one to their timestamps, and others
\* counts further entries, of keys that are never presented again, all
\* recorded at the same second
NewReplayProtection ==
    [ enabled           |-> TRUE,
      nonce_cache       |-> << >>,
      others            |-> [timestamp |-> 0, count |-> 0],
      timestamp_window  |-> DefaultTimestampWindow,
      max_nonces_per_ip |-> DefaultMaxNoncesPerIp ]

\* ReplayProtection::with_timestamp_window
WithTimestampWindow(rp, seconds) == [rp EXCEPT !.timestamp_window = seconds]

\* nonce_cache.len()
CacheLen(rp) == Cardinality(DOMAIN rp.nonce_cache) + rp.others.count

\* SystemTime::now().duration_since(UNIX_EPOCH).as_secs()
UnixSecs == now \div TicksPerSec

\* format!("{}:{}", client_id, request_nonce)
NonceKey(client_id, request_nonce) == client_id \o ":" \o request_nonce

\* a cleanup that keeps a nonce for one timestamp window only
CleanupAfterOneWindow(rp, now_secs) ==
    LET kept == {k \in DOMAIN rp.nonce_cache :
                    now_secs - rp.nonce_cache[k] < rp.timestamp_window}
    IN  [rp EXCEPT
            !.nonce_cache  = [k \in kept |-> rp.nonce_cache[k]],
            !.others.count = IF now_secs - rp.others.timestamp < rp.timestamp_window
                             THEN @ ELSE 0]

\* ReplayProtection::cleanup_expired_nonces
CleanupExpiredNonces(rp, now_secs) ==
    LET kept == {k \in DOMAIN rp.nonce_cache :
                    now_secs - rp.nonce_cache[k] < rp.timestamp_window * 2}
    IN  [rp EXCEPT
            !.nonce_cache  = [k \in kept |-> rp.nonce_cache[k]],
            !.others.count = IF now_secs - rp.others.timestamp < rp.timestamp_window * 2
                             THEN @ ELSE 0]

\* a validate_nonce that stores the nonce before it looks at its characters
ValidateNonceStoringFirst(rp, request_nonce, client_id, ctx, now_secs) ==
    LET key    == NonceKey(client_id, request_nonce)
        stored == [rp EXCEPT !.nonce_cache =
                      [k \in DOMAIN rp.nonce_cache \cup {key} |->
                          IF k = key THEN now_secs ELSE rp.nonce_cache[k]]]
    IN  IF ~rp.enabled
        THEN [result |-> Ok, context |-> ctx, replay |-> rp]
        ELSE IF Len(request_nonce) < MinNonceLen \/ Len(request_nonce) > MaxNonceLen
        THEN [ result  |-> InvalidInput("Invalid nonce format or length", "nonce"),
               context |-> AddThreatScore(ctx, 30), replay |-> rp ]
        ELSE IF key \in DOMAIN rp.nonce_cache
        THEN [ result  |-> ReplayDetected("Nonce already used - request replay detected"),
               context |-> AddThreatScore(ctx, 80), replay |-> rp ]
        ELSE IF \E i \in 1..Len(request_nonce) :
                    CharAt(request_nonce, i) \notin AsciiAlphanumeric \cup {"-", "_"}
        THEN [ result  |-> InvalidInput("Nonce contains invalid characters", "nonce"),
               context |-> AddThreatScore(ctx, 35), replay |-> stored ]
        ELSE [ result  |-> Ok,
               context |-> ctx,
               replay  |-> IF CacheLen(stored) > rp.max_nonces_per_ip * 10
                           THEN CleanupExpiredNonces(stored, now_secs)
                           ELSE stored ]

\* ReplayProtection::validate_nonce: the result, the context and the
\* protection afterwards
ValidateNonce(rp, request_nonce, client_id, ctx, now_secs) ==
    IF ~rp.enabled
    THEN [result |-> Ok, context |-> ctx, replay |-> rp]
    ELSE IF Len(request_nonce) < MinNonceLen \/ Len(request_nonce) > MaxNonceLen
    THEN [ result  |-> InvalidInput("Invalid nonce format or length", "nonce"),
           context |-> AddThreatScore(ctx, 30), replay |-> rp ]
    ELSE IF \E i \in 1..Len(request_nonce) :
                CharAt(request_nonce, i) \notin AsciiAlphanumeric \cup {"-", "_"}
    THEN [ result  |-> InvalidInput("Nonce contains invalid characters", "nonce"),
           context |-> AddThreatScore(ctx, 35), replay |-> rp ]
    ELSE IF NonceKey(client_id, request_nonce) \in DOMAIN rp.nonce_cache
    THEN [ result  |-> ReplayDetected("Nonce already used - request replay detected"),
           context |-> AddThreatScore(ctx, 80), replay |-> rp ]
    ELSE LET key == NonceKey(client_id, request_nonce)
             stored == [rp EXCEPT !.nonce_cache =
                           [k \in DOMAIN rp.nonce_cache \cup {key} |->
                               IF k = key THEN now_secs ELSE rp.nonce_cache[k]]]
         IN  [ result  |-> Ok,
               context |-> ctx,
               replay  |-> IF CacheLen(stored) > rp.max_nonces_per_ip * 10
                           THEN CleanupExpiredNonces(stored, now_secs)
                           ELSE stored ]

\* ================================================================ threat detector, monitor
(***************************************************************************)
(* The ThreatDetector of src/src/threats.rs and the Monitor of             *)
(* src/src/monitoring.rs.                                                  *)
(***************************************************************************)
\* ThreatAnalysis::new
NewThreatAnalysis ==
    [is_threat |-> FALSE, severity |-> "Low", indicators |-> << >>, total_score |-> 0]

\* ThreatAnalysis::add_indicator; the scores of one request stay far below the
\* width of total_score
AddIndicator(analysis, indicator, score) ==
    [analysis EXCEPT
        !.indicators  = Append(@, <<indicator, score>>),
        !.total_score = @ + score,
        !.is_threat   = @ \/ analysis.total_score + score > 30]

\* ThreatDetector::is_bot_user_agent
BotPatterns ==
    { "bot", "crawler", "spider", "scraper", "curl", "wget",
      "python", "java", "go-http-client", "axios", "node-fetch" }
IsBotUserAgent(user_agent) ==
    \E pattern \in BotPatterns : HasSubstring(ToLowercase(user_agent), pattern)

\* the severity ThreatDetector::analyze reads off a threat score
ScoreSeverity(score) ==
    IF score <= 20 THEN "Low"
    ELSE IF score <= 40 THEN "Medium"
    ELSE IF score <= 60 THEN "High"
    ELSE "Critical"

\* ThreatDetector::analyze
Analyze(td, ctx) ==
    IF ~td.enabled
    THEN NewThreatAnalysis
    ELSE LET bot == /\ "user-agent" \in DOMAIN ctx.metadata
                    /\ IsBotUserAgent(ctx.metadata["user-agent"])
             first == IF bot THEN AddIndicator(NewThreatAnalysis, "BotLike", 10)
                      ELSE NewThreatAnalysis
         IN  IF ctx.threat_score > 0
             THEN [AddIndicator(first, "HighThreatScore", ctx.threat_score)
                      EXCEPT !.severity = ScoreSeverity(ctx.threat_score)]
             ELSE first

\* MonitoringConfig::default, as far as log_security_event reads it
DefaultMonitoringConfig == [enabled |-> TRUE, log_security_events |-> TRUE]

\* Monitor::new
NewMonitor(cfg) == [config |-> cfg, security_event_counter |-> 0]

\* SecurityEvent::new and the constructors of the events
SecurityEvent(event_type, description, severity) ==
    [event_type |-> event_type, description |-> description, severity |-> severity]
RateLimitExceededEvent(identifier) ==
    SecurityEvent("RateLimitExceeded", "Rate limit exceeded for: " \o identifier, "Medium")
AuthFailedEvent(reason) == SecurityEvent("AuthenticationFailed", reason, "Medium")
ThreatDetectedEvent(threat_type) ==
    SecurityEvent("ThreatDetected", "Threat detected: " \o threat_type, "High")

\* log_security_event without the check of the monitor's configuration
LogSecurityEventUnconditionally(m, event, ctx) ==
    LET line == CASE event.severity = "Low" ->
                        [level |-> "debug", description |-> event.description,
                         client_ip |-> "", threat_score |-> 0]
                  [] event.severity = "Medium" ->
                        [level |-> "info", description |-> event.description,
                         client_ip |-> ctx.client_ip, threat_score |-> 0]
                  [] OTHER ->
                        [level |-> "warn", description |-> event.description,
                         client_ip |-> ctx.client_ip,
                         threat_score |-> ctx.threat_score]
    IN  [ monitor |-> [m EXCEPT !.security_event_counter = @ + 1],
          emitted |-> <<line>> ]

\* Monitor::log_security_event: the monitor afterwards and the lines written;
\* a line shows the fields its level logs, and the 64-bit counter is far from
\* wrapping
LogSecurityEvent(m, event, ctx) ==
    IF ~m.config.enabled \/ ~m.config.log_security_events
    THEN [monitor |-> m, emitted |-> << >>]
    ELSE LET line == CASE event.severity = "Low" ->
                             [level |-> "debug", description |-> event.description,
                              client_ip |-> "", threat_score |-> 0]
                       [] event.severity = "Medium" ->
                             [level |-> "info", description |-> event.description,
                              client_ip |-> ctx.client_ip, threat_score |-> 0]
                       [] OTHER ->
                             [level |-> "warn", description |-> event.description,
                              client_ip |-> ctx.client_ip,
                              threat_score |-> ctx.threat_score]
         IN  [ monitor |-> [m EXCEPT !.security_event_counter = @ + 1],
               emitted |-> <<line>> ]

\* ================================================================ pipeline
(***************************************************************************)
(* Part 4: the pipeline that runs the stages on one request.  The          *)
(* orchestrator is described by the specification, section 4.3; the rate   *)
(* limiter, the input validator and the replay protection it calls are the *)
(* operators above.  The policy stages in between are represented by their *)
(* verdict on the request: a request carries the set of the policy stages  *)
(* whose check it fails, and a failing stage adds its score and returns    *)
(* its error.                                                              *)
(***************************************************************************)
MaxPipelineRequests == 2
MaxFaults           == 2

\* the stages in their priority order
Stages ==
    << "RateLimit", "ConstraintCheck", "Authentication", "OriginPolicy",
       "TransportPolicy", "CsrfPolicy", "ContentTypePolicy", "IpReputationPolicy",
       "AdvancedThreatHeuristics", "InputValidation", "ReplayProtection" >>

StageSet == {Stages[i] : i \in 1..Len(Stages)}
PolicyStages == StageSet \ {"RateLimit", "InputValidation", "ReplayProtection"}

\* the SecurityError values of the stages
StageError(kind, reason, field) ==
    [kind |-> kind, reason |-> reason, field |-> field, retry_after |-> 0]
RateLimitExceeded(retry_after) ==
    [kind |-> "RateLimitExceeded", reason |-> "", field |-> "", retry_after |-> retry_after]

\* what a policy stage answers to a request that fails its check, and the
\* threat score it adds: the first rejection of the stage's module, and for
\* the threat heuristics the ThreatDetected error of the specification
StageFault(st) ==
    CASE st = "ConstraintCheck" ->
            [error |-> StageError("InvalidInput", "URI length exceeds maximum", "uri"),
             score |-> 30]
      [] st = "Authentication" ->
            [error |-> StageError("AuthenticationFailed",
                                  "No valid authentication credentials provided", ""),
             score |-> 0]
      [] st = "OriginPolicy" ->
            [error |-> StageError("CorsViolation", "Origin is not allowed", ""),
             score |-> 20]
      [] st = "TransportPolicy" ->
            [error |-> StageError("TransportLayerViolation",
                                  "HTTPS connection required", ""),
             score |-> 0]
      [] st = "CsrfPolicy" ->
            [error |-> StageError("CsrfViolation", "CSRF token missing from request", ""),
             score |-> 30]
      [] st = "ContentTypePolicy" ->
            [error |-> StageError("InvalidInput", "Invalid Content-Type header encoding",
                                  "content-type"),
             score |-> 15]
      [] st = "IpReputationPolicy" ->
            [error |-> StageError("IpBlocked", "IP address is blacklisted", ""),
             score |-> 80]
      [] st = "AdvancedThreatHeuristics" ->
            [error |-> StageError("ThreatDetected", "suspicious request pattern", ""),
             score |-> 50]

\* the event the pipeline reports an error as
SecurityEventFor(error, ctx) ==
    CASE error.kind = "RateLimitExceeded" -> RateLimitExceededEvent(ctx.client_ip)
      [] error.kind = "AuthenticationFailed" -> AuthFailedEvent(error.reason)
      [] error.kind = "ThreatDetected" -> ThreatDetectedEvent(error.reason)
      [] error.kind = "InvalidInput" -> SecurityEvent("InvalidInput", error.reason, "High")
      [] OTHER -> SecurityEvent("SuspiciousActivity", error.reason, "High")

\* the metadata the pipeline keeps of a request in its context
RequestMetadata(req) ==
    IF HasHeader(req, "user-agent")
    THEN [n \in {"user-agent"} |-> GetHeader(req, "user-agent")]
    ELSE << >>

\* whether the pipeline runs the stage
StageEnabled(st) ==
    CASE st = "RateLimit"        -> config.enabled
      [] st = "InputValidation"  -> validation.enabled
      [] st = "ReplayProtection" -> replay.enabled
      [] OTHER                   -> st \in layer.enabled

\* the end of the stage at pc, which leaves the context ctx: it is recorded
\* when it ran, its error is the answer to the request and is reported to the
\* monitor with the context, and otherwise the next stage is up, or the
\* request is through
StageDone(result, ctx) ==
    /\ executed' = IF StageEnabled(Stages[pc]) THEN Append(executed, Stages[pc])
                   ELSE executed
    /\ context' = ctx
    /\ IF result # Ok
       THEN LET event == SecurityEventFor(result, ctx)
                logged == LogSecurityEvent(monitor, event, ctx)
            IN  /\ monitor' = logged.monitor
                /\ notified' = Append(notified, [ error   |-> result,
                                                  context |-> ctx,
                                                  event   |-> event,
                                                  emitted |-> logged.emitted ])
       ELSE UNCHANGED <<monitor, notified>>
    /\ IF result # Ok
       THEN response' = result /\ pc' = 0 /\ served' = served + 1
       ELSE IF pc = Len(Stages)
       THEN response' = Ok /\ pc' = 0 /\ served' = served + 1
       ELSE response' = response /\ pc' = pc + 1 /\ served' = served

\* the pipeline takes up a request, with a context of its own
Receive(req) ==
    /\ pc = 0
    /\ response = NoResult
    /\ served < MaxPipelineRequests
    /\ request' = req
    /\ context' = [NewContext(req.client) EXCEPT !.metadata = RequestMetadata(req)]
    /\ executed' = << >>
    /\ response' = NoResult
    /\ pc' = 1
    /\ UNCHANGED <<tool_vars, rl_vars, validation, scan, layer, replay, served, monitor, notified,
                   unit_vars>>

\* the rate limiter is asked about the request's client
RateLimitStage ==
    /\ pc # 0
    /\ Stages[pc] = "RateLimit"
    /\ LET o == CheckOutcome(request.client)
       IN  /\ buckets' = o.buckets
           /\ global_counter' = IF o.counted THEN global_counter + 1 ELSE global_counter
           /\ calls' = [calls EXCEPT ![request.client] =
                           Append(@, [t |-> now, ok |-> o.ok, retry_after |-> o.retry_after])]
           /\ StageDone(IF o.ok THEN Ok ELSE RateLimitExceeded(o.retry_after), context)
    /\ UNCHANGED <<tool_vars, config, now, validation, scan, layer, replay, request, unit_vars>>

\* a policy stage gives its verdict on the request
PolicyStage ==
    /\ pc # 0
    /\ Stages[pc] \in PolicyStages
    /\ LET st == Stages[pc]
           fails == StageEnabled(st) /\ st \in request.faults
           scores == StageEnabled(st) /\ st = "AdvancedThreatHeuristics"
       IN  StageDone(IF fails THEN StageFault(st).error ELSE Ok,
                     IF fails THEN AddThreatScore(context, StageFault(st).score)
                     ELSE IF scores THEN AddThreatScore(context, request.suspicion)
                     ELSE context)
    /\ UNCHANGED <<tool_vars, rl_vars, validation, scan, layer, replay, request, unit_vars>>

\* the input validator scans the request
InputValidationStage ==
    /\ pc # 0
    /\ Stages[pc] = "InputValidation"
    /\ LET v == ValidateRequest(validation, request, context)
       IN  StageDone(v.result, v.context)
    /\ UNCHANGED <<tool_vars, rl_vars, validation, scan, layer, replay, request, unit_vars>>

\* the replay protection looks at the nonce of a request that presents one
ReplayProtectionStage ==
    /\ pc # 0
    /\ Stages[pc] = "ReplayProtection"
    /\ LET v == IF request.has_nonce
                THEN ValidateNonce(replay, request.nonce, request.client,
                                   context, UnixSecs)
                ELSE [result |-> Ok, context |-> context, replay |-> replay]
       IN  /\ replay' = v.replay
           /\ StageDone(v.result, v.context)
    /\ UNCHANGED <<tool_vars, rl_vars, validation, scan, layer, request, unit_vars>>

\* the answer goes back to the caller, and the request and its context go
\* with it
Return ==
    /\ pc = 0
    /\ response # NoResult
    /\ request' = NoRequest
    /\ context' = NewContext("")
    /\ executed' = << >>
    /\ response' = NoResult
    /\ notified' = << >>
    /\ UNCHANGED <<tool_vars, rl_vars, validation, scan, layer, replay, pc, served, monitor,
                   unit_vars>>

\* the sets of policy stages a request may fail
FaultSets == {F \in SUBSET PolicyStages : Cardinality(F) <= MaxFaults}

\* the score the threat heuristics add for a request they let through
SubThresholdScore == 45

\* the requests put to the pipeline: those that fail the checks of policy
\* stages, and those that fail none and that the threat heuristics score
\* without rejecting them
PipelineRequests ==
    { [ client    |-> c,
        method    |-> "GET",
        version   |-> "HTTP/1.1",
        path      |-> "/api/user",
        has_query |-> q # "",
        query     |-> q,
        headers   |-> << [name |-> "user-agent", value |-> "probe/1.0"] >>,
        has_nonce |-> n # "",
        nonce     |-> n,
        faults    |-> F,
        suspicion |-> 0 ] :
      c \in Keys,
      q \in {"", "id=1%27%20UNION%20SELECT%20x"},
      n \in {"", "0123456789abcdef"},
      F \in FaultSets }
    \cup
    { [ client    |-> c,
        method    |-> "GET",
        version   |-> "HTTP/1.1",
        path      |-> "/api/user",
        has_query |-> q # "",
        query     |-> q,
        headers   |-> << [name |-> "user-agent", value |-> "curl/8.0"] >>,
        has_nonce |-> FALSE,
        nonce     |-> "",
        faults    |-> {},
        suspicion |-> SubThresholdScore ] :
      c \in Keys,
      q \in {"", "id=1%27%20UNION%20SELECT%20x"} }

\* the parts switched off: none, or one of the stages, or the monitor, or its
\* log of security events
Switches == {{}} \cup {{st} : st \in StageSet \cup {"Monitoring", "SecurityEventLog"}}

\* the pipeline as constructed, with the stages of off switched off
InitPipeline ==
    \E off \in Switches :
        /\ config = [ enabled |-> "RateLimit" \notin off, requests_per_window |-> 1,
                      burst_size |-> 1, window_secs |-> 1 ]
        /\ buckets = << >>
        /\ global_counter = 0
        /\ now = 0
        /\ calls = [k \in Keys |-> << >>]
        /\ validation = [DefaultValidationConfig EXCEPT
                            !.enabled = "InputValidation" \notin off]
        /\ replay = [NewReplayProtection EXCEPT
                        !.enabled = "ReplayProtection" \notin off]
        /\ layer = [enabled |-> PolicyStages \ off]
        /\ context = NewContext("")
        /\ scan = [ input |-> "", field_name |-> "", score_before |-> 0,
                    result |-> NoResult, evaluated |-> << >> ]
        /\ request = NoRequest
        /\ pc = 0
        /\ executed = << >>
        /\ response = NoResult
        /\ served = 0
        /\ monitor = NewMonitor([ enabled             |-> "Monitoring" \notin off,
                                  log_security_events |-> "SecurityEventLog" \notin off ])
        /\ notified = << >>

\* ================================================================ authentication
(***************************************************************************)
(* Part 5: the AuthManager of src/src/auth.rs.  The JWT codec is the       *)
(* jsonwebtoken crate: a token string either is no token at all or carries *)
(* the secret it was signed with and its claims, and decode checks the     *)
(* signature and, with the default leeway, the expiry.  SHA-256 is taken   *)
(* to be free of collisions on the keys at hand.                           *)
(***************************************************************************)
JwtLeeway == 60
AuthClock == 1000

AuthenticationFailed(reason) ==
    [kind |-> "AuthenticationFailed", reason |-> reason, field |-> "", retry_after |-> 0]

\* Option::None for the user of an authentication
NoUser == [user_id |-> "", roles |-> << >>]

\* the token strings that are tokens: the secret each was signed with and
\* its claims
IssuedTokens ==
    [ t \in {"tok.good", "tok.leeway", "tok.expired", "tok.forged"} |->
        CASE t = "tok.good" ->
                [secret |-> "s3cret", sub |-> "alice", roles |-> <<"admin">>,
                 exp |-> AuthClock + 3600]
          [] t = "tok.leeway" ->
                [secret |-> "s3cret", sub |-> "bob", roles |-> <<"user">>,
                 exp |-> AuthClock - 30]
          [] t = "tok.expired" ->
                [secret |-> "s3cret", sub |-> "carol", roles |-> <<"user">>,
                 exp |-> AuthClock - 3600]
          [] t = "tok.forged" ->
                [secret |-> "0ther", sub |-> "mallory", roles |-> <<"admin">>,
                 exp |-> AuthClock + 3600] ]

\* jsonwebtoken::decode with Validation::default()
DecodeJwt(token, secret, now_secs) ==
    IF token \notin DOMAIN IssuedTokens
    THEN [ok |-> FALSE, error |-> "InvalidToken", claims |-> << >>]
    ELSE IF IssuedTokens[token].secret # secret
    THEN [ok |-> FALSE, error |-> "InvalidSignature", claims |-> << >>]
    ELSE IF IssuedTokens[token].exp < now_secs - JwtLeeway
    THEN [ok |-> FALSE, error |-> "ExpiredSignature", claims |-> << >>]
    ELSE [ok |-> TRUE, error |-> "", claims |-> IssuedTokens[token]]

\* AuthManager::hash_api_key
HashApiKey(key) == "sha256(" \o key \o ")"

\* AuthManager::authenticate_jwt: the result and the user, when there is one
AuthenticateJwt(am, req, now_secs) ==
    IF ~am.config.has_jwt_secret
    THEN [result |-> Ok, user |-> NoUser]
    ELSE IF ~HasHeader(req, "authorization")
    THEN [result |-> Ok, user |-> NoUser]
    ELSE IF ~ToStrOk(GetHeader(req, "authorization"))
    THEN [result |-> Ok, user |-> NoUser]
    ELSE IF ~StartsWith(GetHeader(req, "authorization"), "Bearer ")
    THEN [result |-> Ok, user |-> NoUser]
    ELSE LET value == GetHeader(req, "authorization")
             token == SubSeq(value, 8, Len(value))
             token_data == DecodeJwt(token, am.config.jwt_secret, now_secs)
         IN  IF ~token_data.ok
             THEN [ result |-> AuthenticationFailed("Invalid JWT: " \o token_data.error),
                    user   |-> NoUser ]
             ELSE IF token_data.claims.exp < now_secs
             THEN [result |-> AuthenticationFailed("Token expired"), user |-> NoUser]
             ELSE [ result |-> Ok,
                    user   |-> [ user_id |-> token_data.claims.sub,
                                 roles   |-> token_data.claims.roles ] ]

\* AuthManager::authenticate_api_key
AuthenticateApiKey(am, req) ==
    IF am.api_keys_hashed = {}
    THEN [result |-> Ok, user |-> NoUser]
    ELSE IF ~HasHeader(req, "x-api-key")
    THEN [result |-> Ok, user |-> NoUser]
    ELSE IF ~ToStrOk(GetHeader(req, "x-api-key"))
    THEN [result |-> Ok, user |-> NoUser]
    ELSE LET key_hash == HashApiKey(GetHeader(req, "x-api-key"))
         IN  IF key_hash \in am.api_keys_hashed
             THEN [ result |-> Ok,
                    user   |-> [ user_id |-> "apikey_" \o SubSeq(key_hash, 1, 8),
                                 roles   |-> <<"api_user">> ] ]
             ELSE [result |-> AuthenticationFailed("Invalid API key"), user |-> NoUser]

\* AuthManager::new
NewAuthManager(cfg) ==
    [config |-> cfg, api_keys_hashed |-> {HashApiKey(k) : k \in cfg.api_keys}]

\* an authenticate that lets a request without credentials through whatever
\* require_auth says
AuthenticateNeverRequired(am, req, now_secs) ==
    IF ~am.config.enabled
    THEN [result |-> Ok, user |-> NoUser]
    ELSE LET jwt == AuthenticateJwt(am, req, now_secs)
         IN  IF jwt.result # Ok \/ jwt.user # NoUser
             THEN jwt
             ELSE AuthenticateApiKey(am, req)

\* AuthManager::authenticate
Authenticate(am, req, now_secs) ==
    IF ~am.config.enabled
    THEN [result |-> Ok, user |-> NoUser]
    ELSE LET jwt == AuthenticateJwt(am, req, now_secs)
         IN  IF jwt.result # Ok \/ jwt.user # NoUser
             THEN jwt
             ELSE LET key == AuthenticateApiKey(am, req)
                  IN  IF key.result # Ok \/ key.user # NoUser
                      THEN key
                      ELSE IF am.config.require_auth
                      THEN [ result |->
                                 AuthenticationFailed(
                                     "No valid authentication credentials provided"),
                             user |-> NoUser ]
                      ELSE [result |-> Ok, user |-> NoUser]

\* the configurations of the manager
AuthConfigs ==
    { [ enabled        |-> e,
        require_auth   |-> r,
        has_jwt_secret |-> sec # "",
        jwt_secret     |-> sec,
        api_keys       |-> keys ] :
      e \in BOOLEAN, r \in BOOLEAN, sec \in {"", "s3cret"},
      keys \in {{}, {"key-1"}} }

\* the Authorization and X-API-Key header values of the requests; "" for a
\* request without the header
AuthorizationValues ==
    { "", "Basic dXNlcjpwdw==", "bearer tok.good", "Bearer tok.good",
      "Bearer tok.leeway", "Bearer tok.expired", "Bearer tok.forged",
      "Bearer garbage", "Bearer " \o HighByte }
ApiKeyValues == {"", "key-1", "key-2"}

\* the request with the given header values
AuthRequest(authorization, api_key) ==
    [NoRequest EXCEPT
        !.path = "/api/user",
        !.headers =
            (IF authorization = "" THEN << >>
             ELSE <<[name |-> "authorization", value |-> authorization]>>)
            \o
            (IF api_key = "" THEN << >>
             ELSE <<[name |-> "x-api-key", value |-> api_key]>>)]

\* a call of authenticate(request)
AuthenticateCall ==
    /\ auth.result = NoResult
    /\ LET a == Authenticate(auth.manager, auth.request, AuthClock)
       IN  auth' = [auth EXCEPT !.result = a.result, !.user = a.user]
    /\ UNCHANGED <<tool_vars, rl_vars, val_vars, pipe_vars, sanitized, trial, sweep, settings, nonces>>

\* AuthManager::new(config) and the request to come
InitAuth ==
    auth \in [ manager : {NewAuthManager(c) : c \in AuthConfigs},
               request : {AuthRequest(a, k) : a \in AuthorizationValues,
                                              k \in ApiKeyValues},
               result  : {NoResult},
               user    : {NoUser} ]

\* ================================================================ policy stages
(***************************************************************************)
(* Part 6: the stage operations of src/src/request_constraints.rs,         *)
(* cors.rs, csrf.rs, content_type.rs and ip_reputation.rs.  Each takes the *)
(* stage's state, the request and the context, and yields the result and   *)
(* the context afterwards.                                                 *)
(***************************************************************************)
\* the number of headers of the given name
HeaderCount(req, name) ==
    Cardinality({i \in 1..Len(req.headers) : req.headers[i].name = name})

\* ---------------------------------------------------------------- RequestConstraints
DefaultMaxUriLength == 8192

\* RequestConstraints::new
NewRequestConstraints == [enabled |-> TRUE, max_uri_length |-> DefaultMaxUriLength]

\* RequestConstraints::with_max_uri_length
WithMaxUriLength(rc, length) == [rc EXCEPT !.max_uri_length = length]

\* RequestConstraints::validate_constraints
ValidateConstraints(rc, req, ctx) ==
    IF ~rc.enabled
    THEN [result |-> Ok, context |-> ctx]
    ELSE IF Len(UriString(req)) > rc.max_uri_length
    THEN [ result  |-> InvalidInput("URI length " \o ToString(Len(UriString(req)))
                                        \o " exceeds maximum "
                                        \o ToString(rc.max_uri_length), "uri"),
           context |-> AddThreatScore(ctx, 30) ]
    ELSE IF req.method = ""
    THEN [ result  |-> InvalidInput("Invalid or missing HTTP method", "method"),
           context |-> AddThreatScore(ctx, 25) ]
    ELSE IF req.version = "HTTP/0.9"
    THEN [ result  |-> InvalidInput("HTTP/0.9 is not supported", "version"),
           context |-> AddThreatScore(ctx, 40) ]
    ELSE [result |-> Ok, context |-> ctx]

\* ---------------------------------------------------------------- CsrfProtection
CsrfViolation(reason) ==
    [kind |-> "CsrfViolation", reason |-> reason, field |-> "", retry_after |-> 0]

\* CsrfProtection::new
NewCsrfProtection == [enabled |-> TRUE, header_name |-> "X-CSRF-Token"]

\* CsrfProtection::is_valid_token_format
IsValidTokenFormat(token) ==
    /\ ~(Len(token) < 16 \/ Len(token) > 256)
    /\ \A i \in 1..Len(token) :
           CharAt(token, i) \in AsciiAlphanumeric \cup {"-", "_"}

\* validate_csrf assigning the score of a violation where it should add it
ValidateCsrfAssignsScore(cp, req, ctx) ==
    IF ~cp.enabled
    THEN [result |-> Ok, context |-> ctx]
    ELSE IF req.method \notin {"POST", "PUT", "DELETE", "PATCH"}
    THEN [result |-> Ok, context |-> ctx]
    ELSE LET name == ToLowercase(cp.header_name)
             has_token == HasHeader(req, name) /\ ToStrOk(GetHeader(req, name))
         IN  IF ~has_token
             THEN [ result  |-> CsrfViolation("CSRF token missing from request"),
                    context |-> [ctx EXCEPT !.threat_score = 30] ]
             ELSE IF ~IsValidTokenFormat(GetHeader(req, name))
             THEN [ result  |-> CsrfViolation("Invalid CSRF token format"),
                    context |-> [ctx EXCEPT !.threat_score = 40] ]
             ELSE [result |-> Ok, context |-> ctx]

\* CsrfProtection::validate_csrf; a header map looks a name up whatever its
\* letter case
ValidateCsrf(cp, req, ctx) ==
    IF ~cp.enabled
    THEN [result |-> Ok, context |-> ctx]
    ELSE IF req.method \notin {"POST", "PUT", "DELETE", "PATCH"}
    THEN [result |-> Ok, context |-> ctx]
    ELSE LET name == ToLowercase(cp.header_name)
             has_token == HasHeader(req, name) /\ ToStrOk(GetHeader(req, name))
         IN  IF ~has_token
             THEN [ result  |-> CsrfViolation("CSRF token missing from request"),
                    context |-> AddThreatScore(ctx, 30) ]
             ELSE IF ~IsValidTokenFormat(GetHeader(req, name))
             THEN [ result  |-> CsrfViolation("Invalid CSRF token format"),
                    context |-> AddThreatScore(ctx, 40) ]
             ELSE [result |-> Ok, context |-> ctx]

\* ---------------------------------------------------------------- CorsEnforcer
CorsViolation(reason) ==
    [kind |-> "CorsViolation", reason |-> reason, field |-> "", retry_after |-> 0]

\* CorsEnforcer::new
NewCorsEnforcer ==
    [ enabled           |-> TRUE,
      allowed_origins   |-> {},
      allow_all_origins |-> FALSE,
      allowed_methods   |-> {"GET", "POST", "PUT", "DELETE", "PATCH", "OPTIONS"},
      allowed_headers   |-> {"Content-Type", "Authorization", "X-API-Key", "X-Request-ID"} ]

\* CorsEnforcer::with_allowed_origins
WithAllowedOrigins(ce, origins) ==
    [ce EXCEPT !.allowed_origins = @ \cup origins]

\* CorsEnforcer::is_origin_allowed
IsOriginAllowed(ce, origin) ==
    \/ ce.allow_all_origins
    \/ origin \in ce.allowed_origins
    \/ \E allowed \in ce.allowed_origins :
           /\ StartsWith(allowed, "*.")
           /\ EndsWith(origin, TrimStartMatches(allowed, "*."))
           /\ \/ EndsWith(origin, SubSeq(allowed, 2, Len(allowed)))
              \/ origin = SubSeq(allowed, 3, Len(allowed))

\* CorsEnforcer::is_header_allowed
IsHeaderAllowed(ce, header) ==
    \/ header \in {"content-type", "accept", "accept-language", "accept-encoding"}
    \/ \E h \in ce.allowed_headers : ToLowercase(h) = header

\* check_cors, the loop over the requested headers from the i-th on
RECURSIVE CheckRequestedHeaders(_, _, _, _)
CheckRequestedHeaders(ce, names, i, ctx) ==
    IF i > Len(names)
    THEN [result |-> Ok, context |-> ctx]
    ELSE LET header == ToLowercase(Trim(names[i]))
         IN  IF ~IsHeaderAllowed(ce, header)
             THEN [ result  |-> CorsViolation("Header '" \o header \o "' is not allowed"),
                    context |-> AddThreatScore(ctx, 15) ]
             ELSE CheckRequestedHeaders(ce, names, i + 1, ctx)

\* check_cors, the part for preflight requests
CheckPreflight(ce, req, ctx) ==
    IF req.method # "OPTIONS"
    THEN [result |-> Ok, context |-> ctx]
    ELSE IF /\ HasHeader(req, "access-control-request-method")
            /\ ToStrOk(GetHeader(req, "access-control-request-method"))
            /\ ToUppercase(GetHeader(req, "access-control-request-method"))
                   \notin ce.allowed_methods
    THEN [ result  |-> CorsViolation(
                           "Method '" \o GetHeader(req, "access-control-request-method")
                               \o "' is not allowed"),
           context |-> AddThreatScore(ctx, 15) ]
    ELSE IF /\ HasHeader(req, "access-control-request-headers")
            /\ ToStrOk(GetHeader(req, "access-control-request-headers"))
    THEN CheckRequestedHeaders(
             ce, Split(GetHeader(req, "access-control-request-headers"), ","), 1, ctx)
    ELSE [result |-> Ok, context |-> ctx]

\* CorsEnforcer::check_cors
CheckCors(ce, req, ctx) ==
    IF ~ce.enabled
    THEN [result |-> Ok, context |-> ctx]
    ELSE IF /\ HasHeader(req, "origin")
            /\ ToStrOk(GetHeader(req, "origin"))
            /\ ~IsOriginAllowed(ce, GetHeader(req, "origin"))
    THEN [ result  |-> CorsViolation(
                           "Origin '" \o GetHeader(req, "origin") \o "' is not allowed"),
           context |-> AddThreatScore(ctx, 20) ]
    ELSE CheckPreflight(ce, req, ctx)

\* ---------------------------------------------------------------- IpReputation
IpError(kind, reason) ==
    [kind |-> kind, reason |-> reason, field |-> "", retry_after |-> 0]

\* IpReputation::new
NewIpReputation ==
    [ enabled         |-> TRUE,
      blacklisted_ips |-> {},
      whitelisted_ips |-> {},
      allow_vpn       |-> FALSE,
      allow_proxy     |-> FALSE ]

\* IpReputation::is_vpn_detected
IsVpnDetected(req) ==
    \/ HeaderCount(req, "x-forwarded-for") > 1
    \/ /\ HasHeader(req, "x-forwarded-for")
       /\ ToStrOk(GetHeader(req, "x-forwarded-for"))
       /\ CountChar(GetHeader(req, "x-forwarded-for"), ",") > 1

\* IpReputation::is_proxy_detected
IsProxyDetected(req) ==
    \E header \in {"via", "x-proxy-authorization", "proxy-authorization",
                   "x-anonymizer-version"} : HasHeader(req, header)

\* a check that looks at the blacklist before the whitelist
CheckIpReputationBlacklistFirst(ipr, req, ctx) ==
    IF ~ipr.enabled
    THEN [result |-> Ok, context |-> ctx]
    ELSE IF ctx.client_ip \in ipr.blacklisted_ips
    THEN [ result  |-> IpError("IpBlocked", "IP address is blacklisted"),
           context |-> AddThreatScore(ctx, 80) ]
    ELSE IF ctx.client_ip \in ipr.whitelisted_ips
    THEN [result |-> Ok, context |-> ctx]
    ELSE IF ~ipr.allow_vpn /\ IsVpnDetected(req)
    THEN [ result  |-> IpError("VpnDetected", "VPN/Proxy detected, not allowed"),
           context |-> AddThreatScore(ctx, 25) ]
    ELSE IF ~ipr.allow_proxy /\ IsProxyDetected(req)
    THEN [ result  |-> IpError("ProxyDetected", "Proxy detected, not allowed"),
           context |-> AddThreatScore(ctx, 20) ]
    ELSE [result |-> Ok, context |-> ctx]

\* IpReputation::check_ip_reputation
CheckIpReputation(ipr, req, ctx) ==
    IF ~ipr.enabled
    THEN [result |-> Ok, context |-> ctx]
    ELSE IF ctx.client_ip \in ipr.whitelisted_ips
    THEN [result |-> Ok, context |-> ctx]
    ELSE IF ctx.client_ip \in ipr.blacklisted_ips
    THEN [ result  |-> IpError("IpBlocked", "IP address is blacklisted"),
           context |-> AddThreatScore(ctx, 80) ]
    ELSE IF ~ipr.allow_vpn /\ IsVpnDetected(req)
    THEN [ result  |-> IpError("VpnDetected", "VPN/Proxy detected, not allowed"),
           context |-> AddThreatScore(ctx, 25) ]
    ELSE IF ~ipr.allow_proxy /\ IsProxyDetected(req)
    THEN [ result  |-> IpError("ProxyDetected", "Proxy detected, not allowed"),
           context |-> AddThreatScore(ctx, 20) ]
    ELSE [result |-> Ok, context |-> ctx]

\* ---------------------------------------------------------------- ContentTypeValidator
\* ContentTypeValidator::new
NewContentTypeValidator ==
    [ enabled       |-> TRUE,
      allowed_types |-> << "application/json", "application/x-www-form-urlencoded",
                           "multipart/form-data", "text/plain", "text/xml",
                           "application/xml" >>,
      strict_mode   |-> FALSE ]

\* ContentTypeValidator::strict
Strict(cv) == [cv EXCEPT !.strict_mode = TRUE]

\* ContentTypeValidator::is_allowed_type
IsAllowedType(cv, content_type) ==
    LET base_type == Trim(Split(content_type, ";")[1])
    IN  \E i \in 1..Len(cv.allowed_types) :
            ToLowercase(cv.allowed_types[i]) = ToLowercase(base_type)

\* ContentTypeValidator::is_valid_content_type
IsValidContentType(content_type) ==
    LET base_type == Trim(Split(content_type, ";")[1])
        type_parts == Split(base_type, "/")
    IN  /\ HasSubstring(base_type, "/")
        /\ Len(type_parts) = 2
        /\ Len(type_parts[1]) > 0
        /\ Len(type_parts[2]) > 0

\* ContentTypeValidator::validate_charset
ValidateCharset(cv, content_type, ctx) ==
    IF ~HasSubstring(ToLowercase(content_type), "charset")
    THEN [result |-> Ok, context |-> ctx]
    ELSE LET parts == Split(content_type, ";")
             found == {i \in 1..Len(parts) : HasSubstring(ToLowercase(parts[i]), "charset")}
         IN  IF found = {}
             THEN [result |-> Ok, context |-> ctx]
             ELSE LET charset_part == parts[CHOOSE i \in found : \A j \in found : i <= j]
                      pieces == Split(charset_part, "=")
                      charset == IF Len(pieces) >= 2
                                 THEN TrimEndChars(TrimStartChars(Trim(pieces[2]), {"\""}),
                                                   {"\""})
                                 ELSE ""
                  IN  IF ToLowercase(charset)
                            \notin {"utf-8", "utf-16", "iso-8859-1", "us-ascii"}
                      THEN [ result  |-> InvalidInput(
                                            "Charset '" \o charset \o "' not allowed",
                                            "content-type-charset"),
                             context |-> AddThreatScore(ctx, 15) ]
                      ELSE [result |-> Ok, context |-> ctx]

\* ContentTypeValidator::validate_content_type
ValidateContentType(cv, req, ctx) ==
    IF ~cv.enabled
    THEN [result |-> Ok, context |-> ctx]
    ELSE IF req.method \notin {"POST", "PUT", "PATCH"}
    THEN [result |-> Ok, context |-> ctx]
    ELSE IF ~HasHeader(req, "content-type")
    THEN IF cv.strict_mode
         THEN [ result  |-> InvalidInput("Content-Type header required", "content-type"),
                context |-> AddThreatScore(ctx, 20) ]
         ELSE [result |-> Ok, context |-> ctx]
    ELSE IF ~ToStrOk(GetHeader(req, "content-type"))
    THEN [ result  |-> InvalidInput("Invalid Content-Type header encoding", "content-type"),
           context |-> AddThreatScore(ctx, 15) ]
    ELSE LET content_type == GetHeader(req, "content-type")
         IN  IF ~IsValidContentType(content_type)
             THEN [ result  |-> InvalidInput("Invalid Content-Type format", "content-type"),
                    context |-> AddThreatScore(ctx, 20) ]
             ELSE IF ~IsAllowedType(cv, content_type)
             THEN [ result  |-> InvalidInput(
                                   "Content-Type '" \o content_type \o "' not allowed",
                                   "content-type"),
                    context |-> AddThreatScore(ctx, 25) ]
             ELSE ValidateCharset(cv, content_type, ctx)

\* ---------------------------------------------------------------- stage operations on one request
MaxStageCalls == 2

\* the stages as configured for the trial
TrialConstraints == WithMaxUriLength(NewRequestConstraints, 24)
TrialCors ==
    WithAllowedOrigins(NewCorsEnforcer, {"https://app.example.com", "*.example.org"})
TrialContentType == Strict(NewContentTypeValidator)
TrialIpReputation ==
    [NewIpReputation EXCEPT !.whitelisted_ips = {"10.0.0.1"},
                            !.blacklisted_ips = {"10.0.0.1", "10.0.0.2"}]

\* the validator of the trial, with limits that a short request exceeds
TrialValidation ==
    [DefaultValidationConfig EXCEPT !.max_payload_size = 100, !.max_header_size = 32]

\* a header
Header(name, value) == [name |-> name, value |-> value]

\* the header lists of the requests
TrialHeaders ==
    { << >>,
      << Header("origin", "https://app.example.com") >>,
      << Header("origin", "https://evil.test") >>,
      << Header("origin", "https://shop.example.org") >>,
      << Header("x-csrf-token", "ABCDEFGHIJKLMNOP1234") >>,
      << Header("x-csrf-token", "short") >>,
      << Header("x-csrf-token", "ABCDEFGHIJKLMNOP1234"),
         Header("content-type", "application/json; charset=utf-8") >>,
      << Header("x-csrf-token", "ABCDEFGHIJKLMNOP1234"),
         Header("content-type", "Application/JSON; charset=ebcdic") >>,
      << Header("x-csrf-token", "ABCDEFGHIJKLMNOP1234"),
         Header("content-type", "text/html") >>,
      << Header("content-type", "json") >>,
      << Header("content-type", "text/plain" \o HighByte) >>,
      << Header("x-forwarded-for", "1.1.1.1"), Header("x-forwarded-for", "2.2.2.2") >>,
      << Header("x-forwarded-for", "1.1.1.1, 2.2.2.2, 3.3.3.3") >>,
      << Header("via", "1.1 proxy") >>,
      << Header("access-control-request-method", "trace") >>,
      << Header("access-control-request-headers", "Content-Type, X-Custom") >>,
      << Header("user-agent", "' OR '1'='1") >>,
      << Header("content-length", "101") >>,
      << Header("content-length", "100"),
         Header("x-trace", "0123456789012345678901234567890123456789") >>,
      << Header("x-trace", "<script>"),
         Header("x-note", "0123456789012345678901234567890123456789") >>,
      << Header("x-note", "<script>" \o HighByte) >> }

\* the requests of the trial: every header list under three methods, and a
\* plain request varied in its client, version, URI and nonce
PlainRequest ==
    [NoRequest EXCEPT !.client = "10.0.0.3", !.path = "/api/user"]
TrialRequests ==
    {[PlainRequest EXCEPT !.method = m, !.headers = h] :
        m \in {"GET", "POST", "OPTIONS"}, h \in TrialHeaders}
    \cup {[PlainRequest EXCEPT !.client = c] : c \in {"10.0.0.1", "10.0.0.2"}}
    \cup {[PlainRequest EXCEPT
               !.client = c,
               !.headers = << Header("x-forwarded-for", "1.1.1.1, 2.2.2.2, 3.3.3.3"),
                              Header("via", "1.1 proxy") >>] :
             c \in {"10.0.0.1", "10.0.0.2", "10.0.0.3"}}
    \cup { [PlainRequest EXCEPT !.version = "HTTP/0.9"],
           [PlainRequest EXCEPT !.path = "/api/user/profile/settings/all"],
           [PlainRequest EXCEPT !.has_query = TRUE, !.query = "q=%3Cscript%3E"],
           [PlainRequest EXCEPT
               !.has_query = TRUE, !.query = "q=%3Cscript%3E",
               !.headers = << Header("x-trace",
                                     "0123456789012345678901234567890123456789") >>],
           [PlainRequest EXCEPT !.has_nonce = TRUE, !.nonce = "0123456789abcdef"],
           [PlainRequest EXCEPT !.has_nonce = TRUE, !.nonce = "0123456789abcde!"],
           [PlainRequest EXCEPT !.has_nonce = TRUE, !.nonce = "abc"] }

\* the scores a context may carry when the trial starts
TrialScores == {0, 50}

\* a stage operation has been applied: its outcome is recorded with the score
\* before and after
TrialStep(op, outcome) ==
    /\ Len(trial.calls) < MaxStageCalls
    /\ trial' = [trial EXCEPT
                    !.context = outcome.context,
                    !.calls = Append(@, [ op      |-> op,
                                          result  |-> outcome.result,
                                          before  |-> trial.context.threat_score,
                                          after   |-> outcome.context.threat_score,
                                          scanned |-> IF "scanned" \in DOMAIN outcome
                                                      THEN outcome.scanned
                                                      ELSE << >> ])]
    /\ UNCHANGED <<tool_vars, rl_vars, val_vars, pipe_vars, sanitized, auth, sweep, settings, nonces>>

ValidateConstraintsCall ==
    TrialStep("validate_constraints",
              ValidateConstraints(TrialConstraints, trial.request, trial.context))

CheckCorsCall ==
    TrialStep("check_cors", CheckCors(TrialCors, trial.request, trial.context))

ValidateCsrfCall ==
    TrialStep("validate_csrf",
              ValidateCsrf(NewCsrfProtection, trial.request, trial.context))

ValidateContentTypeCall ==
    TrialStep("validate_content_type",
              ValidateContentType(TrialContentType, trial.request, trial.context))

CheckIpReputationCall ==
    TrialStep("check_ip_reputation",
              CheckIpReputation(TrialIpReputation, trial.request, trial.context))

ValidateRequestCall ==
    TrialStep("validate_request",
              ValidateRequest(TrialValidation, trial.request, trial.context))

ValidateNonceCall ==
    /\ trial.request.has_nonce
    /\ LET v == ValidateNonce(trial.replay, trial.request.nonce, trial.request.client,
                              trial.context, UnixSecs)
       IN  /\ Len(trial.calls) < MaxStageCalls
           /\ trial' = [trial EXCEPT
                           !.context = v.context,
                           !.replay = v.replay,
                           !.calls = Append(@, [ op      |-> "validate_nonce",
                                                 result  |-> v.result,
                                                 before  |-> trial.context.threat_score,
                                                 after   |-> v.context.threat_score,
                                                 scanned |-> << >> ])]
    /\ UNCHANGED <<tool_vars, rl_vars, val_vars, pipe_vars, sanitized, auth, sweep, settings, nonces>>

\* a request and its context, before any stage has seen it
InitTrial ==
    \E req \in TrialRequests, score \in TrialScores :
        trial = [ request |-> req,
                  context |-> AddThreatScore(NewContext(req.client), score),
                  replay  |-> NewReplayProtection,
                  calls   |-> << >> ]

\* ---------------------------------------------------------------- cleanup_old_buckets
MaxSweepChecks == 3
MaxSweeps      == 1
MaxElapses     == 3

\* a bucket that expires one tick early, at ten windows
IsExpiredAtTenWindows(b, t) == t - b.last_refill >= b.window * 10

\* TokenBucket::is_expired at clock reading t
IsExpired(b, t) == t - b.last_refill > b.window * 10

\* a check between the steps of a sweep; the time of the last check on a key
\* is kept beside the map for as long as the key has a bucket, and the
\* admissions of the key are kept with their times
CheckAmidSweeps(k) ==
    /\ sweep.checks < MaxSweepChecks
    /\ LET o == CheckOutcome(k)
       IN  /\ buckets' = o.buckets
           /\ global_counter' = IF o.counted THEN global_counter + 1 ELSE global_counter
           /\ sweep' = [sweep EXCEPT
                            !.checks = @ + 1,
                            !.last_check[k] = now,
                            !.admitted[k] = IF o.ok THEN Append(@, [t |-> now, n |-> 1])
                                            ELSE @]
    /\ UNCHANGED <<tool_vars, config, now, calls, val_vars, pipe_vars, sanitized, auth, trial,
                   settings, nonces>>

\* time passes: a tick, or ten windows
Elapse(d) ==
    /\ sweep.elapses < MaxElapses
    /\ now' = now + d
    /\ sweep' = [sweep EXCEPT !.elapses = @ + 1]
    /\ UNCHANGED <<tool_vars, config, buckets, global_counter, calls, val_vars, pipe_vars,
                   sanitized, auth, trial, settings, nonces>>

\* cleanup_old_buckets is called: DashMap::retain will visit the shards one
\* after the other, each under its own lock
CleanupStart ==
    /\ ~sweep.active
    /\ sweep.sweeps < MaxSweeps
    /\ sweep' = [sweep EXCEPT !.active = TRUE, !.pending = Keys, !.started = now,
                              !.removed = {}]
    /\ UNCHANGED <<tool_vars, rl_vars, val_vars, pipe_vars, sanitized, auth, trial, settings, nonces>>

\* retain reaches the shard of k and keeps the bucket unless it is expired
\* at the clock reading of that moment
CleanupVisit(k) ==
    /\ sweep.active
    /\ k \in sweep.pending
    /\ LET drop == k \in DOMAIN buckets /\ IsExpired(buckets[k], now)
       IN  /\ buckets' = IF drop THEN [j \in DOMAIN buckets \ {k} |-> buckets[j]]
                         ELSE buckets
           /\ sweep' = [sweep EXCEPT !.pending = @ \ {k},
                                     !.removed = IF drop THEN @ \cup {k} ELSE @,
                                     !.last_check[k] = IF drop THEN 0 ELSE @,
                                     !.forgotten[k] = IF drop THEN {buckets[k]} ELSE @]
    /\ UNCHANGED <<tool_vars, config, global_counter, now, calls, val_vars, pipe_vars,
                   sanitized, auth, trial, settings, nonces>>

\* retain has visited every shard and cleanup_old_buckets returns
CleanupEnd ==
    /\ sweep.active
    /\ sweep.pending = {}
    /\ sweep' = [sweep EXCEPT !.active = FALSE, !.sweeps = @ + 1]
    /\ UNCHANGED <<tool_vars, rl_vars, val_vars, pipe_vars, sanitized, auth, trial, settings, nonces>>

\* consume called on a bucket again and again at clock reading t, until it
\* refuses: the bucket afterwards and the number of times it admitted
RECURSIVE ConsumeUntilRefused(_, _, _)
ConsumeUntilRefused(b, t, admitted) ==
    LET c == Consume(b, t)
    IN  IF c.ok
        THEN ConsumeUntilRefused(c.bucket, t, admitted + 1)
        ELSE [bucket |-> c.bucket, admitted |-> admitted]

\* a client repeats check(k) until it is turned away, all at one reading of
\* the clock
CheckUntilLimited(k) ==
    /\ sweep.checks < MaxSweepChecks
    /\ config.enabled
    /\ LET o == ConsumeUntilRefused(EntryOrInsert(k), now, 0)
       IN  /\ buckets' = [j \in DOMAIN buckets \cup {k} |->
                             IF j = k THEN o.bucket ELSE buckets[j]]
           /\ global_counter' = global_counter + o.admitted
           /\ sweep' = [sweep EXCEPT
                            !.checks = @ + 1,
                            !.last_check[k] = now,
                            !.admitted[k] = IF o.admitted > 0
                                            THEN Append(@, [t |-> now, n |-> o.admitted])
                                            ELSE @]
    /\ UNCHANGED <<tool_vars, config, now, calls, val_vars, pipe_vars, sanitized, auth, trial,
                   settings, nonces>>

\* the burst sizes of the limiters swept: one token, ten windows' worth of
\* requests, and more than that
SweptBursts == {1, 10, 12}

\* a limiter of one request per window of one second with one of the burst
\* sizes, before any sweep
InitForgetful ==
    /\ config \in [ enabled : {TRUE}, requests_per_window : {1},
                    burst_size : SweptBursts, window_secs : {1} ]
    /\ buckets = << >>
    /\ global_counter = 0
    /\ now = 0
    /\ calls = [k \in Keys |-> << >>]
    /\ sweep = [ active |-> FALSE, pending |-> {}, started |-> 0, removed |-> {},
                 last_check |-> [k \in Keys |-> 0], checks |-> 0, sweeps |-> 0,
                 elapses |-> 0, admitted |-> [k \in Keys |-> << >>],
                 forgotten |-> [k \in Keys |-> {}] ]

\* a limiter of one request per window of one second, before any sweep
InitSweep ==
    /\ config = [ enabled |-> TRUE, requests_per_window |-> 1, burst_size |-> 1,
                  window_secs |-> 1 ]
    /\ buckets = << >>
    /\ global_counter = 0
    /\ now = 0
    /\ calls = [k \in Keys |-> << >>]
    /\ sweep = [ active |-> FALSE, pending |-> {}, started |-> 0, removed |-> {},
                 last_check |-> [k \in Keys |-> 0], checks |-> 0, sweeps |-> 0,
                 elapses |-> 0, admitted |-> [k \in Keys |-> << >>],
                 forgotten |-> [k \in Keys |-> {}] ]

\* ---------------------------------------------------------------- SecurityConfig
MaxBuilderCalls == 2

\* ThreatDetectionConfig::default
DefaultThreatDetectionConfig ==
    [ enabled |-> TRUE, anomaly_detection |-> TRUE, bot_detection |-> TRUE,
      known_patterns |-> TRUE, block_suspicious |-> TRUE ]

\* SecurityConfig::default, as far as strict_mode and with_input_sanitization
\* reach into it
DefaultSecurityConfig ==
    [validation |-> DefaultValidationConfig, threat_detection |-> DefaultThreatDetectionConfig]

\* SecurityConfig::with_input_sanitization
WithInputSanitization(sc, enabled) == [sc EXCEPT !.validation.sanitize_input = enabled]

\* SecurityConfig::strict_mode
StrictMode(sc) ==
    [sc EXCEPT !.validation.sql_injection_check     = TRUE,
               !.validation.xss_check               = TRUE,
               !.validation.command_injection_check = TRUE,
               !.validation.path_traversal_check    = TRUE,
               !.validation.sanitize_input          = TRUE,
               !.threat_detection.anomaly_detection = TRUE,
               !.threat_detection.bot_detection     = TRUE]

\* the builder calls
StrictModeCall ==
    /\ Len(settings.calls) < MaxBuilderCalls
    /\ settings' = [ config |-> StrictMode(settings.config),
                     calls  |-> Append(settings.calls, "strict_mode") ]
    /\ UNCHANGED <<tool_vars, rl_vars, val_vars, pipe_vars, sanitized, auth, trial, sweep, nonces>>

WithInputSanitizationCall(enabled) ==
    /\ Len(settings.calls) < MaxBuilderCalls
    /\ settings' = [ config |-> WithInputSanitization(settings.config, enabled),
                     calls  |-> Append(settings.calls, "with_input_sanitization") ]
    /\ UNCHANGED <<tool_vars, rl_vars, val_vars, pipe_vars, sanitized, auth, trial, sweep, nonces>>

\* a configuration as deserialized or put together field by field: the flags
\* are public and take any values
InitSettings ==
    settings \in
        [ config : [ validation :
                        [ enabled                 : {TRUE},
                          sql_injection_check     : BOOLEAN,
                          xss_check               : BOOLEAN,
                          command_injection_check : BOOLEAN,
                          path_traversal_check    : BOOLEAN,
                          sanitize_input          : BOOLEAN,
                          max_payload_size        : {DefaultMaxPayloadSize},
                          max_header_size         : {DefaultMaxHeaderSize} ],
                     threat_detection :
                        [ enabled           : {TRUE},
                          anomaly_detection : BOOLEAN,
                          bot_detection     : BOOLEAN,
                          known_patterns    : BOOLEAN,
                          block_suspicious  : BOOLEAN ] ],
          calls : {<< >>} ]

\* ---------------------------------------------------------------- nonces presented
MaxNonceCalls    == 3
MaxNonceAdvances == 2

\* the clients and the nonces they present; the last nonce is too short
NonceClients == {"client1", "client2"}
NonceValues  == {"0123456789abcdef", "fedcba9876543210", "0123456789"}

\* a nonce of 257 characters
LongNonce ==
    LET a == "0123456789abcdef"
        b == a \o a \o a \o a
    IN  b \o b \o b \o b \o "0"

\* the nonces presented where the rejections are looked at: a well-formed one,
\* one with a character that is not allowed, a short one and a long one
RejectedNonceValues ==
    {"0123456789abcdef", "0123456789abcde!", "0123456789", LongNonce}

\* validate_nonce is called; the call is recorded with the clock reading and
\* the length of the cache it found
ValidateNoncePresented(client_id, request_nonce) ==
    /\ Len(nonces.calls) < MaxNonceCalls
    /\ LET v == ValidateNonce(nonces.rp, request_nonce, client_id,
                              NewContext(client_id), nonces.clock)
       IN  nonces' = [nonces EXCEPT
                         !.rp = v.replay,
                         !.calls = Append(@, [ client_id |-> client_id,
                                               nonce     |-> request_nonce,
                                               at        |-> nonces.clock,
                                               len       |-> CacheLen(nonces.rp),
                                               result    |-> v.result ])]
    /\ UNCHANGED <<tool_vars, rl_vars, val_vars, pipe_vars, sanitized, auth, trial, sweep, settings>>

\* the system clock advances, by a second or by two timestamp windows
NonceClockAdvance(seconds) ==
    /\ seconds > 0
    /\ nonces.advances < MaxNonceAdvances
    /\ nonces' = [nonces EXCEPT !.clock = @ + seconds, !.advances = @ + 1]
    /\ UNCHANGED <<tool_vars, rl_vars, val_vars, pipe_vars, sanitized, auth, trial, sweep, settings>>

\* a protection with a timestamp window of its builder, whose cache is empty
\* or holds the nonces of max_nonces_per_ip * 10 requests of the current second
InitNonces ==
    \E window \in {0, 1, DefaultTimestampWindow}, held \in {0, DefaultMaxNoncesPerIp * 10} :
        nonces = [ rp       |-> [WithTimestampWindow(NewReplayProtection, window)
                                    EXCEPT !.others = [timestamp |-> 0, count |-> held]],
                   clock    |-> 0,
                   advances |-> 0,
                   calls    |-> << >> ]

\* ---------------------------------------------------------------- validate_timestamp
MaxStampCalls == 2

\* a u64 is kept as its four 16-bit limbs, the most significant first, so
\* that the whole range of the type is covered
LimbBase == 2 ^ 16

\* the u64 of a number below 2^31
U64Of(n) == <<0, 0, n \div LimbBase, n % LimbBase>>

\* u64::MAX
U64Max == <<LimbBase - 1, LimbBase - 1, LimbBase - 1, LimbBase - 1>>

\* a < b on u64
LessU64(a, b) ==
    \E i \in 1..4 : a[i] < b[i] /\ \A j \in 1..(i - 1) : a[j] = b[j]

\* a + b on u64: the sum modulo 2^64 and whether it left the range
AddU64(a, b) ==
    LET s4 == a[4] + b[4]
        s3 == a[3] + b[3] + s4 \div LimbBase
        s2 == a[2] + b[2] + s3 \div LimbBase
        s1 == a[1] + b[1] + s2 \div LimbBase
    IN  [ value    |-> <<s1 % LimbBase, s2 % LimbBase, s3 % LimbBase, s4 % LimbBase>>,
          overflow |-> s1 >= LimbBase ]

\* a - b on u64: the difference modulo 2^64 and whether it left the range
SubU64(a, b) ==
    LET d4 == a[4] - b[4]
        d3 == a[3] - b[3] - (IF d4 < 0 THEN 1 ELSE 0)
        d2 == a[2] - b[2] - (IF d3 < 0 THEN 1 ELSE 0)
        d1 == a[1] - b[1] - (IF d2 < 0 THEN 1 ELSE 0)
    IN  [ value    |-> <<d1 % LimbBase, d2 % LimbBase, d3 % LimbBase, d4 % LimbBase>>,
          overflow |-> d1 < 0 ]

\* the panic of an arithmetic operation that left the range of its type, in a
\* build with overflow checks
Panicked(reason) ==
    [kind |-> "panic", reason |-> reason, field |-> "", retry_after |-> 0]

\* ReplayProtection::validate_timestamp.  overflow_checks tells the build:
\* with the checks (the dev profile) an operation that leaves the range
\* panics, without them (the release profile) it wraps.  wrapped names the
\* operations that wrapped
ValidateTimestamp(rp, request_timestamp, ctx, now_secs, overflow_checks) ==
    LET now_u64 == U64Of(now_secs)
        oldest  == AddU64(request_timestamp, U64Of(rp.timestamp_window))
        age     == SubU64(now_u64, request_timestamp)
        newest  == AddU64(now_u64, U64Of(60))
    IN  IF ~rp.enabled
        THEN [result |-> Ok, context |-> ctx, wrapped |-> {}]
        ELSE IF oldest.overflow /\ overflow_checks
        THEN [ result  |-> Panicked("attempt to add with overflow"),
               context |-> ctx, wrapped |-> {} ]
        ELSE IF LessU64(oldest.value, now_u64)
        THEN IF age.overflow /\ overflow_checks
             THEN [ result  |-> Panicked("attempt to subtract with overflow"),
                    context |-> AddThreatScore(ctx, 50), wrapped |-> {} ]
             ELSE [ result  |-> ReplayDetected("Request timestamp is too old"),
                    context |-> AddThreatScore(ctx, 50),
                    wrapped |-> {e \in {"request_timestamp + timestamp_window"} :
                                     oldest.overflow}
                                \cup {e \in {"now - request_timestamp"} : age.overflow} ]
        ELSE IF newest.overflow /\ overflow_checks
        THEN [ result  |-> Panicked("attempt to add with overflow"),
               context |-> ctx,
               wrapped |-> {e \in {"request_timestamp + timestamp_window"} :
                                oldest.overflow} ]
        ELSE IF LessU64(newest.value, request_timestamp)
        THEN [ result  |-> InvalidInput("Request timestamp is in the future", "timestamp"),
               context |-> AddThreatScore(ctx, 35),
               wrapped |-> {e \in {"request_timestamp + timestamp_window"} :
                                oldest.overflow}
                           \cup {e \in {"now + 60"} : newest.overflow} ]
        ELSE [ result  |-> Ok, context |-> ctx,
               wrapped |-> {e \in {"request_timestamp + timestamp_window"} :
                                oldest.overflow}
                           \cup {e \in {"now + 60"} : newest.overflow} ]

\* the distances from the clock or from u64::MAX of the timestamps put
StampOffsets == {0, 1, 59, 60, 61, 299, 300, 301, 600}

\* the timestamps put to the protection: around the clock, and at the two ends
\* of the range of u64
Timestamps(now_secs) ==
    {U64Of(now_secs + d) : d \in StampOffsets}
        \cup {U64Of(now_secs - d) : d \in {e \in StampOffsets : e <= now_secs}}
        \cup {U64Of(0)}
        \cup {SubU64(U64Max, U64Of(d)).value : d \in StampOffsets}

\* validate_timestamp called with a timestamp
ValidateTimestampCall(request_timestamp) ==
    /\ Len(stamps.calls) < MaxStampCalls
    /\ LET v == ValidateTimestamp(stamps.rp, request_timestamp, stamps.context,
                                  stamps.clock, stamps.overflow_checks)
       IN  stamps' = [stamps EXCEPT
                         !.context = v.context,
                         !.calls = Append(@, [ timestamp |-> request_timestamp,
                                               before    |-> stamps.context.threat_score,
                                               after     |-> v.context.threat_score,
                                               wrapped   |-> v.wrapped,
                                               result    |-> v.result ])]
    /\ UNCHANGED <<rl_vars, val_vars, pipe_vars, unit_vars, asked, errors, store, metrics>>

\* a protection with the default timestamp window or one of its builder, in
\* either build, at some second of the system clock
InitStamps ==
    \E window \in {0, DefaultTimestampWindow}, clock \in {100, 1000, 1700000000},
       overflow_checks \in BOOLEAN :
        stamps = [ rp              |-> WithTimestampWindow(NewReplayProtection, window),
                   clock           |-> clock,
                   overflow_checks |-> overflow_checks,
                   context         |-> NewContext("127.0.0.1"),
                   calls           |-> << >> ]

\* ---------------------------------------------------------------- is_origin_allowed
MaxOriginCalls == 2

\* CorsEnforcer::allow_all_origins
AllowAllOrigins(ce) == [ce EXCEPT !.allow_all_origins = TRUE]

\* the lists of allowed origins the enforcers are built with: those of the
\* tests of the enforcer, and a wildcard entry without a scheme
AllowedOriginLists ==
    { {},
      {"https://example.com", "https://app.example.com"},
      {"https://*.example.com"},
      {"*.example.com"} }

\* the origins asked about
AskedOrigins ==
    { "https://example.com", "https://app.example.com", "https://api.example.com",
      "https://evil.com", "https://evilexample.com", "example.com" }

\* is_origin_allowed called with an origin
IsOriginAllowedCall(origin) ==
    /\ Len(asked.calls) < MaxOriginCalls
    /\ asked' = [asked EXCEPT
                    !.calls = Append(@, [ origin  |-> origin,
                                          allowed |-> IsOriginAllowed(asked.enforcer,
                                                                      origin) ])]
    /\ UNCHANGED <<rl_vars, val_vars, pipe_vars, unit_vars, stamps, errors, store, metrics>>

\* an enforcer built with a list of allowed origins, for all origins or not
InitOrigins ==
    \E allowed \in AllowedOriginLists, all \in BOOLEAN :
        asked = [ enforcer |-> IF all
                               THEN AllowAllOrigins(
                                        WithAllowedOrigins(NewCorsEnforcer, allowed))
                               ELSE WithAllowedOrigins(NewCorsEnforcer, allowed),
                  calls    |-> << >> ]

\* ---------------------------------------------------------------- error responses
MaxErrorCalls == 3

\* Option<String>
None == [some |-> FALSE, text |-> ""]
Some(text) == [some |-> TRUE, text |-> text]

\* the variants of SecurityError matched by from_security_error
ErrorKinds ==
    { "RateLimitExceeded", "AuthenticationFailed", "AuthorizationFailed", "InvalidInput",
      "ThreatDetected", "ConfigError", "InternalError", "CorsViolation",
      "CsrfViolation", "HttpsRequired", "TransportLayerViolation", "IpBlocked",
      "VpnDetected", "ProxyDetected", "RequestTimeout", "ConnectionTimeout",
      "ReplayDetected" }

\* a table that hands the reason of an internal error on as its detail
SafeMessageWithReason(error) ==
    CASE    error.kind = "RateLimitExceeded" ->
            [error |-> "Rate limit exceeded", code |-> "RATE_LIMIT_EXCEEDED",
             details |-> Some("Too many requests. Please try again later.")]
        [] error.kind = "AuthenticationFailed" ->
            [error |-> "Authentication failed", code |-> "AUTH_FAILED",
             details |-> Some("Invalid or missing authentication credentials.")]
        [] error.kind = "AuthorizationFailed" ->
            [error |-> "Forbidden", code |-> "FORBIDDEN",
             details |-> Some("You do not have permission to access this resource.")]
        [] error.kind = "InvalidInput" ->
            [error |-> "Bad request", code |-> "BAD_REQUEST",
             details |-> Some("The request contains invalid data.")]
        [] error.kind = "ThreatDetected" ->
            [error |-> "Request blocked", code |-> "THREAT_DETECTED",
             details |-> Some("Your request was blocked due to suspicious activity.")]
        [] error.kind = "ConfigError" ->
            [error |-> "Internal server error", code |-> "INTERNAL_ERROR",
             details |-> Some(error.reason)]
        [] error.kind = "InternalError" ->
            [error |-> "Internal server error", code |-> "INTERNAL_ERROR",
             details |-> Some(error.reason)]
        [] error.kind = "CorsViolation" ->
            [error |-> "CORS policy violation", code |-> "CORS_VIOLATION",
             details |-> Some("This request does not meet the CORS policy requirements.")]
        [] error.kind = "CsrfViolation" ->
            [error |-> "CSRF validation failed", code |-> "CSRF_FAILED",
             details |-> Some("CSRF token validation failed.")]
        [] error.kind = "HttpsRequired" ->
            [error |-> "HTTPS required", code |-> "HTTPS_REQUIRED",
             details |-> Some("This endpoint requires a secure HTTPS connection.")]
        [] error.kind = "TransportLayerViolation" ->
            [error |-> "Transport layer violation", code |-> "TRANSPORT_VIOLATION",
             details |-> Some("The request does not meet security requirements.")]
        [] error.kind = "IpBlocked" ->
            [error |-> "Access denied", code |-> "IP_BLOCKED",
             details |-> Some("Your IP address does not have access to this resource.")]
        [] error.kind = "VpnDetected" ->
            [error |-> "Access denied", code |-> "VPN_DETECTED",
             details |-> Some("VPN/Proxy access is not allowed.")]
        [] error.kind = "ProxyDetected" ->
            [error |-> "Access denied", code |-> "PROXY_DETECTED",
             details |-> Some("Proxy access is not allowed.")]
        [] error.kind = "RequestTimeout" ->
            [error |-> "Request timeout", code |-> "REQUEST_TIMEOUT",
             details |-> Some("Your request exceeded the maximum allowed time.")]
        [] error.kind = "ConnectionTimeout" ->
            [error |-> "Connection timeout", code |-> "CONNECTION_TIMEOUT",
             details |-> Some("Your connection exceeded the maximum allowed time.")]
        [] error.kind = "ReplayDetected" ->
            [error |-> "Replay attack detected", code |-> "REPLAY_DETECTED",
             details |-> Some("Your request appears to be a replay of a previous request.")]

\* from_security_error, the match on the error: the message, the code and the
\* detail text of the variant
SafeMessage(error) ==
    CASE    error.kind = "RateLimitExceeded" ->
            [error |-> "Rate limit exceeded", code |-> "RATE_LIMIT_EXCEEDED",
             details |-> Some("Too many requests. Please try again later.")]
        [] error.kind = "AuthenticationFailed" ->
            [error |-> "Authentication failed", code |-> "AUTH_FAILED",
             details |-> Some("Invalid or missing authentication credentials.")]
        [] error.kind = "AuthorizationFailed" ->
            [error |-> "Forbidden", code |-> "FORBIDDEN",
             details |-> Some("You do not have permission to access this resource.")]
        [] error.kind = "InvalidInput" ->
            [error |-> "Bad request", code |-> "BAD_REQUEST",
             details |-> Some("The request contains invalid data.")]
        [] error.kind = "ThreatDetected" ->
            [error |-> "Request blocked", code |-> "THREAT_DETECTED",
             details |-> Some("Your request was blocked due to suspicious activity.")]
        [] error.kind = "ConfigError" ->
            [error |-> "Internal server error", code |-> "INTERNAL_ERROR",
             details |-> None]
        [] error.kind = "InternalError" ->
            [error |-> "Internal server error", code |-> "INTERNAL_ERROR",
             details |-> None]
        [] error.kind = "CorsViolation" ->
            [error |-> "CORS policy violation", code |-> "CORS_VIOLATION",
             details |-> Some("This request does not meet the CORS policy requirements.")]
        [] error.kind = "CsrfViolation" ->
            [error |-> "CSRF validation failed", code |-> "CSRF_FAILED",
             details |-> Some("CSRF token validation failed.")]
        [] error.kind = "HttpsRequired" ->
            [error |-> "HTTPS required", code |-> "HTTPS_REQUIRED",
             details |-> Some("This endpoint requires a secure HTTPS connection.")]
        [] error.kind = "TransportLayerViolation" ->
            [error |-> "Transport layer violation", code |-> "TRANSPORT_VIOLATION",
             details |-> Some("The request does not meet security requirements.")]
        [] error.kind = "IpBlocked" ->
            [error |-> "Access denied", code |-> "IP_BLOCKED",
             details |-> Some("Your IP address does not have access to this resource.")]
        [] error.kind = "VpnDetected" ->
            [error |-> "Access denied", code |-> "VPN_DETECTED",
             details |-> Some("VPN/Proxy access is not allowed.")]
        [] error.kind = "ProxyDetected" ->
            [error |-> "Access denied", code |-> "PROXY_DETECTED",
             details |-> Some("Proxy access is not allowed.")]
        [] error.kind = "RequestTimeout" ->
            [error |-> "Request timeout", code |-> "REQUEST_TIMEOUT",
             details |-> Some("Your request exceeded the maximum allowed time.")]
        [] error.kind = "ConnectionTimeout" ->
            [error |-> "Connection timeout", code |-> "CONNECTION_TIMEOUT",
             details |-> Some("Your connection exceeded the maximum allowed time.")]
        [] error.kind = "ReplayDetected" ->
            [error |-> "Replay attack detected", code |-> "REPLAY_DETECTED",
             details |-> Some("Your request appears to be a replay of a previous request.")]

\* SafeErrorResponse::from_security_error; utc_now is what chrono::Utc::now
\* reads, in seconds
FromSecurityError(error, request_id, include_details, utc_now) ==
    LET safe == SafeMessage(error)
    IN  [ error      |-> safe.error,
          code       |-> safe.code,
          timestamp  |-> utc_now,
          request_id |-> request_id,
          details    |-> IF include_details THEN safe.details ELSE None ]

\* ErrorHandler::should_expose_details
ShouldExposeDetails(threat_score, is_authenticated) ==
    is_authenticated /\ threat_score < 50

\* the reasons the errors carry: internal text that names a file and a secret,
\* and a plain one
InternalReasons ==
    {"token codec failed at /home/app/src/auth.rs:85", "Invalid API key"}

\* the errors handed to from_security_error
SecurityErrors ==
    {[kind |-> k, reason |-> r, field |-> "", retry_after |-> 0] :
        k \in ErrorKinds, r \in InternalReasons}

\* the calls made so far, of either operation
ErrorCalls == Cardinality(errors.responses) + Cardinality(errors.gates)

\* from_security_error called on an error
FromSecurityErrorCall(error, include_details) ==
    /\ ErrorCalls < MaxErrorCalls
    /\ errors' = [errors EXCEPT
                     !.responses = @ \cup
                         {[ error           |-> error,
                            include_details |-> include_details,
                            response        |-> FromSecurityError(
                                                    error, "req-123", include_details,
                                                    errors.utc_now) ]}]
    /\ UNCHANGED <<rl_vars, val_vars, pipe_vars, unit_vars, stamps, asked, store, metrics>>

\* should_expose_details called for a threat score and a caller
ShouldExposeDetailsCall(threat_score, is_authenticated) ==
    /\ ErrorCalls < MaxErrorCalls
    /\ errors' = [errors EXCEPT
                     !.gates = @ \cup
                         {[ threat_score     |-> threat_score,
                            is_authenticated |-> is_authenticated,
                            exposed          |-> ShouldExposeDetails(threat_score,
                                                                     is_authenticated) ]}]
    /\ UNCHANGED <<rl_vars, val_vars, pipe_vars, unit_vars, stamps, asked, store, metrics>>

\* no response built and no gate asked yet
InitErrors == errors = [utc_now |-> 1700000000, responses |-> {}, gates |-> {}]

\* ---------------------------------------------------------------- BlockedRequestsStore
MaxStoreCalls == 4

\* the values of max_entries the store is constructed with
StoreSizes == {1, 2}

\* the storage file before anything was saved to it
NoFile == [exists |-> FALSE, requests |-> << >>]

\* BlockedRequest::from_request, of which the id and the reason are kept
FromRequest(id, error) == [id |-> id, block_reason |-> error.kind]

\* BlockedRequestsStore::load_from_file: the requests in memory afterwards
LoadFromFile(file, requests) == IF ~file.exists THEN requests ELSE file.requests

\* BlockedRequestsStore::save_to_file: the file afterwards; saved tells
\* whether the file could be written
SaveToFile(file, requests, saved) ==
    IF saved THEN [exists |-> TRUE, requests |-> requests] ELSE file

\* requests.push(blocked_request) and the removal that follows it
PushRequest(requests, blocked_request, max_entries) ==
    LET pushed == Append(requests, blocked_request)
    IN  IF Len(pushed) > max_entries THEN Tail(pushed) ELSE pushed

\* the process starts: BlockedRequestsStore::new on the storage file, with the
\* max_entries of its configuration
NewStore(max_entries) ==
    /\ store.calls < MaxStoreCalls
    /\ store' = [store EXCEPT
                    !.max_entries = max_entries,
                    !.requests = LoadFromFile(store.file, << >>),
                    !.calls = @ + 1,
                    !.last = [op |-> "new", before |-> << >>,
                              after |-> LoadFromFile(store.file, << >>)]]
    /\ UNCHANGED <<rl_vars, val_vars, pipe_vars, unit_vars, stamps, asked, errors, metrics>>

\* BlockedRequestsStore::add_blocked_request
AddBlockedRequest(blocked_request, saved) ==
    /\ store.calls < MaxStoreCalls
    /\ LET kept == PushRequest(store.requests, blocked_request, store.max_entries)
       IN  store' = [store EXCEPT
                        !.requests = kept,
                        !.file = SaveToFile(@, kept, saved),
                        !.made = @ + 1,
                        !.calls = @ + 1,
                        !.last = [op |-> "append", before |-> store.requests,
                                  after |-> kept]]
    /\ UNCHANGED <<rl_vars, val_vars, pipe_vars, unit_vars, stamps, asked, errors, metrics>>

\* BlockedRequestsStore::store_blocked_request
StoreBlockedRequest(error, saved) ==
    AddBlockedRequest(FromRequest(store.made + 1, error), saved)

\* BlockedRequestsStore::clear_blocked_requests
ClearBlockedRequests(saved) ==
    /\ store.calls < MaxStoreCalls
    /\ store' = [store EXCEPT
                    !.requests = << >>,
                    !.file = SaveToFile(@, << >>, saved),
                    !.calls = @ + 1,
                    !.last = [op |-> "clear", before |-> store.requests,
                              after |-> << >>]]
    /\ UNCHANGED <<rl_vars, val_vars, pipe_vars, unit_vars, stamps, asked, errors, metrics>>

\* a store constructed where there is no storage file yet
InitStore ==
    \E max_entries \in StoreSizes :
        store = [ max_entries |-> max_entries, requests |-> << >>, file |-> NoFile,
                  made |-> 0, calls |-> 0,
                  last |-> [op |-> "new", before |-> << >>, after |-> << >>] ]

\* ---------------------------------------------------------------- MetricsCollector
(***************************************************************************)
(* The MetricsCollector of src/src/ui/metrics.rs over the counters of      *)
(* UIState.  Of a snapshot the request counters and the block rate are     *)
(* kept, and a serial number that tells the snapshots of different         *)
(* collections apart.  The block rate, an f64 in the source, is kept as    *)
(* the fraction it was computed from: the division and the multiplication  *)
(* by 100.0 are correctly rounded and monotone, and fractions of counters  *)
(* this small that differ give f64 values that differ.                     *)
(***************************************************************************)
MaxMetricsCalls == 3
MaxTracked == 2

\* the number of snapshots the history holds at most
HistoryCapacity == 1440

\* UIState::get_metrics_snapshot: the block rate is 0.0 without requests,
\* otherwise blocked / total * 100.0
GetMetricsSnapshot(total_requests, blocked_requests) ==
    [ total_requests   |-> total_requests,
      blocked_requests |-> blocked_requests,
      block_rate       |-> IF total_requests = 0
                           THEN [num |-> 0, den |-> 1]
                           ELSE [num |-> blocked_requests * 100, den |-> total_requests] ]

\* current_rate > previous_rate on block rates
RateExceeds(a, b) == a.num * b.den > b.num * a.den

\* MetricsCollector::collect: the snapshot returned and the history afterwards
CollectSnapshot(m) ==
    LET snapshot == [ serial           |-> m.collected + 1,
                      total_requests   |-> GetMetricsSnapshot(m.total_requests, m.blocked_requests).total_requests,
                      blocked_requests |-> GetMetricsSnapshot(m.total_requests, m.blocked_requests).blocked_requests,
                      block_rate       |-> GetMetricsSnapshot(m.total_requests, m.blocked_requests).block_rate ]
        kept     == IF Len(m.history) >= HistoryCapacity THEN Tail(m.history) ELSE m.history
    IN  [snapshot |-> snapshot, history |-> Append(kept, snapshot)]

\* RequestTracker::track_request: one more request counted
TrackRequest ==
    /\ metrics.total_requests < MaxTracked
    /\ metrics' = [metrics EXCEPT !.total_requests = @ + 1]
    /\ UNCHANGED <<rl_vars, val_vars, pipe_vars, unit_vars, stamps, asked, errors, store>>

\* RequestTracker::update_request with blocked = true, for a tracked request
\* that was not yet reported as blocked
UpdateRequest ==
    /\ metrics.blocked_requests < metrics.total_requests
    /\ metrics' = [metrics EXCEPT !.blocked_requests = @ + 1]
    /\ UNCHANGED <<rl_vars, val_vars, pipe_vars, unit_vars, stamps, asked, errors, store>>

\* MetricsCollector::collect, called on its own
Collect ==
    /\ metrics.calls < MaxMetricsCalls
    /\ metrics' = [metrics EXCEPT
                      !.history   = CollectSnapshot(metrics).history,
                      !.collected = @ + 1,
                      !.calls     = @ + 1]
    /\ UNCHANGED <<rl_vars, val_vars, pipe_vars, unit_vars, stamps, asked, errors, store>>

\* MetricsCollector::get_summary: collect, then read the back of the history.
\* With the summary the history as it was before the call is recorded.
GetSummary ==
    /\ metrics.calls < MaxMetricsCalls
    /\ LET collected == CollectSnapshot(metrics)
           current   == collected.snapshot
           history   == collected.history
           previous  == IF Len(history) > 0 THEN history[Len(history)] ELSE current
           summary   == [ current  |-> current,
                          previous |-> previous,
                          trend    |-> IF RateExceeds(current.block_rate, previous.block_rate)
                                       THEN "increasing"
                                       ELSE "decreasing" ]
       IN  metrics' = [metrics EXCEPT
                          !.history   = history,
                          !.collected = @ + 1,
                          !.summaries = Append(@, [summary |-> summary, before |-> metrics.history]),
                          !.calls     = @ + 1]
    /\ UNCHANGED <<rl_vars, val_vars, pipe_vars, unit_vars, stamps, asked, errors, store>>

\* a collector that is new, or has collected up to HistoryCapacity snapshots
\* while no request was tracked
InitMetrics ==
    \E n \in {0, 1, HistoryCapacity - 1, HistoryCapacity} :
        metrics = [ total_requests   |-> 0,
                    blocked_requests |-> 0,
                    history          |-> [i \in 1..n |->
                                             [ serial           |-> i,
                                               total_requests   |-> 0,
                                               blocked_requests |-> 0,
                                               block_rate       |-> [num |-> 0, den |-> 1] ]],
                    collected        |-> n,
                    summaries        |-> << >>,
                    calls            |-> 0 ]

\* ================================================================ specifications
\* a limiter nobody uses
IdleRateLimiter ==
    /\ config = [enabled |-> FALSE, requests_per_window |-> 1,
                 burst_size |-> 0, window_secs |-> 1]
    /\ buckets = << >>
    /\ global_counter = 0
    /\ now = 0
    /\ calls = [k \in Keys |-> << >>]

\* a validator nobody uses
IdleValidator ==
    /\ validation = DefaultValidationConfig
    /\ context = NewContext("")
    /\ scan = [ input |-> "", field_name |-> "", score_before |-> 0,
                result |-> NoResult, evaluated |-> << >> ]

\* a pipeline nobody uses
IdlePipeline ==
    /\ layer = [enabled |-> PolicyStages]
    /\ replay = NewReplayProtection
    /\ request = NoRequest
    /\ pc = 0
    /\ executed = << >>
    /\ response = NoResult
    /\ served = 0
    /\ monitor = NewMonitor(DefaultMonitoringConfig)
    /\ notified = << >>

\* a sanitizer nobody calls
IdleSanitizer == sanitized = [input |-> "", outputs |-> << >>]

\* an authentication manager nobody asks
IdleAuth ==
    auth = [ manager |-> NewAuthManager([ enabled |-> TRUE, require_auth |-> FALSE,
                                          has_jwt_secret |-> FALSE, jwt_secret |-> "",
                                          api_keys |-> {} ]),
             request |-> NoRequest, result |-> NoResult, user |-> NoUser ]

\* no trial of the stage operations
IdleTrial ==
    trial = [ request |-> NoRequest, context |-> NewContext(""),
              replay |-> NewReplayProtection, calls |-> << >> ]

\* no sweep of the bucket map
IdleSweep ==
    sweep = [ active |-> FALSE, pending |-> {}, started |-> 0, removed |-> {},
              last_check |-> [k \in Keys |-> 0], checks |-> 0, sweeps |-> 0,
              elapses |-> 0, admitted |-> [k \in Keys |-> << >>],
              forgotten |-> [k \in Keys |-> {}] ]

\* the default configuration, with no builder called on it
IdleSettings == settings = [config |-> DefaultSecurityConfig, calls |-> << >>]

\* a replay protection nobody presents a nonce to
IdleNonces ==
    nonces = [rp |-> NewReplayProtection, clock |-> 0, advances |-> 0, calls |-> << >>]

\* the parts exercised on their own, unused
IdleUnits ==
    IdleSanitizer /\ IdleAuth /\ IdleTrial /\ IdleSweep /\ IdleSettings /\ IdleNonces

\* a replay protection nobody puts a timestamp to
IdleStamps ==
    stamps = [ rp |-> NewReplayProtection, clock |-> 0, overflow_checks |-> FALSE,
               context |-> NewContext(""), calls |-> << >> ]

\* a CORS enforcer nobody asks
IdleOrigins == asked = [enforcer |-> NewCorsEnforcer, calls |-> << >>]

\* an error handler nobody hands an error to
IdleErrors == errors = [utc_now |-> 0, responses |-> {}, gates |-> {}]

\* a store of blocked requests nobody uses
IdleStore ==
    store = [ max_entries |-> 0, requests |-> << >>, file |-> NoFile, made |-> 0,
              calls |-> 0, last |-> [op |-> "new", before |-> << >>, after |-> << >>] ]

\* a metrics collector nobody uses
IdleMetrics ==
    metrics = [ total_requests |-> 0, blocked_requests |-> 0, history |-> << >>,
                collected |-> 0, summaries |-> << >>, calls |-> 0 ]

\* the further parts exercised on their own, unused
IdleTools == IdleStamps /\ IdleOrigins /\ IdleErrors /\ IdleStore /\ IdleMetrics

\* the rate limiter under check calls and the passage of time
Init == InitRateLimiter /\ IdleValidator /\ IdlePipeline /\ IdleUnits /\ IdleTools

Next ==
    \/ \E k \in Keys : Check(k)
    \/ Tick

Spec == Init /\ [][Next]_vars

\* the validator scanning one string
InitValidate == IdleRateLimiter /\ InitValidator /\ IdlePipeline /\ IdleUnits /\ IdleTools

NextValidate == ValidateStringCall

SpecValidate == InitValidate /\ [][NextValidate]_vars

\* the pipeline evaluating requests, one after the other
NextPipeline ==
    \/ \E req \in PipelineRequests : Receive(req)
    \/ RateLimitStage
    \/ PolicyStage
    \/ InputValidationStage
    \/ ReplayProtectionStage
    \/ Return

InitServe == InitPipeline /\ IdleUnits /\ IdleTools

SpecPipeline == InitServe /\ [][NextPipeline]_vars

\* the sanitizer called on an input and again on its output
InitSanitize ==
    /\ IdleTools
    /\ IdleRateLimiter /\ InitSanitizer /\ IdlePipeline
    /\ IdleAuth /\ IdleTrial /\ IdleSweep /\ IdleSettings /\ IdleNonces

NextSanitize == SanitizeCall

SpecSanitize == InitSanitize /\ [][NextSanitize]_vars

\* the authentication manager asked about one request
InitAuthenticate ==
    /\ IdleTools
    /\ IdleRateLimiter /\ IdleValidator /\ IdlePipeline
    /\ IdleSanitizer /\ InitAuth /\ IdleTrial /\ IdleSweep /\ IdleSettings /\ IdleNonces

NextAuthenticate == AuthenticateCall

SpecAuthenticate == InitAuthenticate /\ [][NextAuthenticate]_vars

\* the stage operations applied, in any order, to one request and its context
InitStages ==
    /\ IdleTools
    /\ IdleRateLimiter /\ IdleValidator /\ IdlePipeline
    /\ IdleSanitizer /\ IdleAuth /\ InitTrial /\ IdleSweep /\ IdleSettings /\ IdleNonces

NextStages ==
    \/ ValidateConstraintsCall
    \/ CheckCorsCall
    \/ ValidateCsrfCall
    \/ ValidateContentTypeCall
    \/ CheckIpReputationCall
    \/ ValidateRequestCall
    \/ ValidateNonceCall

SpecStages == InitStages /\ [][NextStages]_vars

\* checks, the passage of time and sweeps of the bucket map, interleaved
InitCleanup ==
    /\ IdleTools
    /\ InitSweep /\ IdlePipeline
    /\ validation = DefaultValidationConfig
    /\ context = NewContext("")
    /\ scan = [ input |-> "", field_name |-> "", score_before |-> 0,
                result |-> NoResult, evaluated |-> << >> ]
    /\ IdleSanitizer /\ IdleAuth /\ IdleTrial /\ IdleSettings /\ IdleNonces

NextCleanup ==
    \/ \E k \in Keys : CheckAmidSweeps(k)
    \/ \E d \in {1, 10 * WindowTicks(config)} : Elapse(d)
    \/ CleanupStart
    \/ \E k \in Keys : CleanupVisit(k)
    \/ CleanupEnd

SpecCleanup == InitCleanup /\ [][NextCleanup]_vars

\* the same, for limiters of several burst sizes whose clients may use up
\* their burst at once
InitForget ==
    /\ IdleTools
    /\ InitForgetful /\ IdleValidator /\ IdlePipeline
    /\ IdleSanitizer /\ IdleAuth /\ IdleTrial /\ IdleSettings /\ IdleNonces

NextForget ==
    \/ \E k \in Keys : CheckAmidSweeps(k)
    \/ \E k \in Keys : CheckUntilLimited(k)
    \/ \E d \in {1, 10 * WindowTicks(config)} : Elapse(d)
    \/ CleanupStart
    \/ \E k \in Keys : CleanupVisit(k)
    \/ CleanupEnd

SpecForget == InitForget /\ [][NextForget]_vars

\* the builders applied to a configuration
InitConfigure ==
    /\ IdleTools
    /\ IdleRateLimiter /\ IdleValidator /\ IdlePipeline
    /\ IdleSanitizer /\ IdleAuth /\ IdleTrial /\ IdleSweep /\ InitSettings /\ IdleNonces

NextConfigure ==
    \/ StrictModeCall
    \/ \E enabled \in BOOLEAN : WithInputSanitizationCall(enabled)

SpecConfigure == InitConfigure /\ [][NextConfigure]_vars

\* nonces presented to a replay protection while its clock advances
InitPresent ==
    /\ IdleTools
    /\ IdleRateLimiter /\ IdleValidator /\ IdlePipeline
    /\ IdleSanitizer /\ IdleAuth /\ IdleTrial /\ IdleSweep /\ IdleSettings /\ InitNonces

NextPresent ==
    \/ \E c \in NonceClients, n \in NonceValues : ValidateNoncePresented(c, n)
    \/ \E seconds \in {1, 2 * nonces.rp.timestamp_window} : NonceClockAdvance(seconds)

SpecPresent == InitPresent /\ [][NextPresent]_vars

\* nonces of every kind presented to a replay protection
NextReject ==
    \E c \in NonceClients, n \in RejectedNonceValues : ValidateNoncePresented(c, n)

SpecReject == InitPresent /\ [][NextReject]_vars

\* timestamps put to a replay protection
InitTimestamps ==
    /\ IdleRateLimiter /\ IdleValidator /\ IdlePipeline /\ IdleUnits
    /\ InitStamps /\ IdleOrigins /\ IdleErrors /\ IdleStore /\ IdleMetrics

NextTimestamps == \E ts \in Timestamps(stamps.clock) : ValidateTimestampCall(ts)

SpecTimestamps == InitTimestamps /\ [][NextTimestamps]_vars

\* origins asked of a CORS enforcer
InitAsk ==
    /\ IdleRateLimiter /\ IdleValidator /\ IdlePipeline /\ IdleUnits
    /\ IdleStamps /\ InitOrigins /\ IdleErrors /\ IdleStore /\ IdleMetrics

NextAsk == \E origin \in AskedOrigins : IsOriginAllowedCall(origin)

SpecAsk == InitAsk /\ [][NextAsk]_vars

\* errors turned into responses, and the gate on their details asked
InitRespond ==
    /\ IdleRateLimiter /\ IdleValidator /\ IdlePipeline /\ IdleUnits
    /\ IdleStamps /\ IdleOrigins /\ InitErrors /\ IdleStore /\ IdleMetrics

NextRespond ==
    \/ \E error \in SecurityErrors, include_details \in BOOLEAN :
           FromSecurityErrorCall(error, include_details)
    \/ \E threat_score \in {30, 49, 50, 60}, is_authenticated \in BOOLEAN :
           ShouldExposeDetailsCall(threat_score, is_authenticated)

SpecRespond == InitRespond /\ [][NextRespond]_vars

\* blocked requests stored, the store cleared, and the process started again
InitBlocked ==
    /\ IdleRateLimiter /\ IdleValidator /\ IdlePipeline /\ IdleUnits
    /\ IdleStamps /\ IdleOrigins /\ IdleErrors /\ InitStore /\ IdleMetrics

NextBlocked ==
    \/ \E max_entries \in StoreSizes : NewStore(max_entries)
    \/ \E saved \in BOOLEAN :
           AddBlockedRequest(FromRequest(store.made + 1, IpError("IpBlocked", "")), saved)
    \/ \E saved \in BOOLEAN : StoreBlockedRequest(InvalidInput("", "query"), saved)
    \/ \E saved \in BOOLEAN : ClearBlockedRequests(saved)

SpecBlocked == InitBlocked /\ [][NextBlocked]_vars

\* requests tracked and reported blocked, metrics collected and summarised
InitSummarise ==
    /\ IdleRateLimiter /\ IdleValidator /\ IdlePipeline /\ IdleUnits
    /\ IdleStamps /\ IdleOrigins /\ IdleErrors /\ IdleStore /\ InitMetrics

NextSummarise ==
    \/ TrackRequest
    \/ UpdateRequest
    \/ Collect
    \/ GetSummary

SpecSummarise == InitSummarise /\ [][NextSummarise]_vars

\* ================================================================ claims
\* ---------------------------------------------------------------- rate limiter
\* the number of admissions of key k at clock readings in [a, b]
AdmittedIn(k, a, b) ==
    Cardinality({m \in 1..Len(calls[k]) :
                    calls[k][m].ok /\ a <= calls[k][m].t /\ calls[k][m].t <= b})

\* the key whose check is the step from the current state to the next, if any
IsCheckOf(k) == Len(calls'[k]) = Len(calls[k]) + 1
LastCall(k) == calls'[k][Len(calls'[k])]

\* the token count check(k) sees once the pending refill is applied, stated
\* from the configuration: a vacant entry starts full, an occupied one gains
\* requests_per_window / window_duration tokens per unit of time, up to burst_size
TokensAfterRefill(k) ==
    IF k \in DOMAIN buckets
    THEN Min(buckets[k].tokens + (now - buckets[k].last_refill) * config.requests_per_window,
             config.burst_size * WindowTicks(config))
    ELSE config.burst_size * WindowTicks(config)

\* C1: with the limiter enabled, for every key and every window [a, a+W] of
\* clock readings, the number of checks on the key admitted within the window
\* is at most burst_size + floor(W * requests_per_window / window_duration).
C1_AdmissionBound ==
    config.enabled =>
        \A k \in Keys : \A a \in 0..MaxTime : \A W \in 0..MaxTime :
            AdmittedIn(k, a, a + W)
                <= config.burst_size
                   + (W * config.requests_per_window) \div WindowTicks(config)

\* a key has used up a whole window's allowance exactly: a rejection happened
\* and the admissions over [0, now] equal the bound, part of it from refill
C1_Witness ==
    /\ config.enabled /\ config.burst_size >= 1 /\ now > 0
    /\ \E k \in Keys :
        /\ \E m \in 1..Len(calls[k]) : ~calls[k][m].ok
        /\ (now * config.requests_per_window) \div WindowTicks(config) >= 1
        /\ AdmittedIn(k, 0, now)
              = config.burst_size
                + (now * config.requests_per_window) \div WindowTicks(config)

\* C2: every bucket holds between 0 and capacity tokens, capacity being
\* burst_size, after every check; its last-refill time is never ahead of the
\* clock and never moves backward, and a check never lowers the token count
\* by more than the one token it consumes.
C2_TokensInRange ==
    \A k \in DOMAIN buckets :
        /\ 0 <= buckets[k].tokens
        /\ buckets[k].tokens <= buckets[k].capacity
        /\ buckets[k].capacity = config.burst_size * WindowTicks(config)
        /\ buckets[k].last_refill <= now

C2_RefillMonotone ==
    \A k \in DOMAIN buckets :
        /\ k \in DOMAIN buckets'
        /\ buckets'[k].last_refill >= buckets[k].last_refill
        /\ buckets'[k].tokens >= buckets[k].tokens - OneToken(buckets[k])
        /\ (~IsCheckOf(k) \/ ~LastCall(k).ok) => buckets'[k].tokens >= buckets[k].tokens

C2_BucketInvariant == [] C2_TokensInRange /\ [][C2_RefillMonotone]_vars

\* a bucket that was emptied, refilled part of a token and was checked again
C2_Witness ==
    \E k \in DOMAIN buckets :
        /\ buckets[k].tokens > 0
        /\ buckets[k].tokens < OneToken(buckets[k])
        /\ buckets[k].last_refill > 0
        /\ \E m \in 1..Len(calls[k]) : ~calls[k][m].ok

\* C3: with the limiter enabled, of the checks on a key made before one whole
\* token's worth of time has passed since its first check, the first
\* burst_size are admitted and every later one is rejected with
\* retry_after >= 1; so N such checks give exactly min(N, burst_size) admissions.
C3_BurstThenReject ==
    config.enabled =>
        \A k \in Keys : \A n \in 1..Len(calls[k]) :
            (calls[k][n].t - calls[k][1].t) * config.requests_per_window
                    < WindowTicks(config)
                => /\ calls[k][n].ok <=> n <= config.burst_size
                   /\ ~calls[k][n].ok => calls[k][n].retry_after >= 1

\* burst_size + 1 checks on one key within less than a token's worth of time,
\* the clock having moved in between: the last one is the first rejected
C3_Witness ==
    /\ config.enabled /\ config.burst_size >= 1
    /\ \E k \in Keys :
        LET n == config.burst_size + 1
        IN  /\ Len(calls[k]) >= n
            /\ calls[k][n].t > calls[k][1].t
            /\ (calls[k][n].t - calls[k][1].t) * config.requests_per_window
                   < WindowTicks(config)
            /\ ~calls[k][n].ok
            /\ \A m \in 1..(n - 1) : calls[k][m].ok

\* C4: with the limiter enabled, an admitted check(k) leaves key k with one
\* token less than it had once the pending refill was applied, and leaves
\* the entry of every other key as it was (present or absent, same bucket);
\* hence with burst_size >= 1 the first check on every key is admitted.
C4_AdmitFrame ==
    \A k \in Keys :
        (config.enabled /\ IsCheckOf(k) /\ LastCall(k).ok) =>
            /\ k \in DOMAIN buckets'
            /\ buckets'[k].tokens = TokensAfterRefill(k) - WindowTicks(config)
            /\ \A j \in Keys \ {k} :
                /\ j \in DOMAIN buckets' <=> j \in DOMAIN buckets
                /\ j \in DOMAIN buckets => buckets'[j] = buckets[j]

C4_FirstCheckAdmitted ==
    (config.enabled /\ config.burst_size >= 1) =>
        \A k \in Keys : Len(calls[k]) >= 1 => calls[k][1].ok

C4_ConsumeOneToken == [] C4_FirstCheckAdmitted /\ [][C4_AdmitFrame]_vars

\* both keys were checked, one of them admitted after a partial refill while
\* the other key's bucket exists
C4_Witness ==
    /\ config.enabled
    /\ DOMAIN buckets = Keys
    /\ \E k \in Keys : \E m \in 2..Len(calls[k]) :
        /\ calls[k][m].ok
        /\ calls[k][m].t > calls[k][m - 1].t
        /\ ~calls[k][m - 1].ok

\* C5: with the limiter enabled, a rejected check(k) leaves key k with
\* exactly the token count the pending refill gives (nothing is consumed),
\* leaves every other key's entry as it was, and carries retry_after =
\* max(1, ceil((1 - tokens) / refill_rate)) for that token count.
C5_RejectFrame ==
    \A k \in Keys :
        (config.enabled /\ IsCheckOf(k) /\ ~LastCall(k).ok) =>
            /\ k \in DOMAIN buckets'
            /\ buckets'[k].tokens = TokensAfterRefill(k)
            /\ LastCall(k).retry_after
                 = Max(1, CeilDiv(WindowTicks(config) - TokensAfterRefill(k),
                                  config.requests_per_window * TicksPerSec))
            /\ \A j \in Keys \ {k} :
                /\ j \in DOMAIN buckets' <=> j \in DOMAIN buckets
                /\ j \in DOMAIN buckets => buckets'[j] = buckets[j]

C5_RejectConsumesNothing == [][C5_RejectFrame]_vars

\* a rejection on a partly refilled bucket whose retry hint is more than the
\* one-second floor
C5_Witness ==
    \E k \in DOMAIN buckets : \E m \in 1..Len(calls[k]) :
        /\ ~calls[k][m].ok
        /\ calls[k][m].retry_after >= 2
        /\ calls[k][m].t > calls[k][1].t

\* C6: with enabled = false every check is admitted and no bucket is ever
\* created: the bucket map stays empty and the admission counter at 0.
C6_DisabledPassThrough ==
    ~config.enabled =>
        /\ DOMAIN buckets = {}
        /\ global_counter = 0
        /\ \A k \in Keys : \A m \in 1..Len(calls[k]) :
            calls[k][m].ok /\ calls[k][m].retry_after = 0

\* a disabled limiter that has answered more checks on one key than any
\* burst_size within the bounds, and checks on the other key too
C6_Witness ==
    /\ ~config.enabled
    /\ \E k \in Keys : Len(calls[k]) > MaxBurst
    /\ \A k \in Keys : Len(calls[k]) >= 1

\* C7: with the limiter enabled and burst_size >= 1, once check(k) is
\* rejected with retry_after = r, the first check(k) made r seconds or more
\* later is admitted, provided no check(k) in between was admitted.
C7_RetryAfterSuffices ==
    (config.enabled /\ config.burst_size >= 1) =>
        \A k \in Keys : \A i, j \in 1..Len(calls[k]) :
            ( /\ i < j
              /\ ~calls[k][i].ok
              /\ calls[k][j].t - calls[k][i].t >= calls[k][i].retry_after * TicksPerSec
              /\ \A m \in (i + 1)..(j - 1) : ~calls[k][m].ok )
            => calls[k][j].ok

\* a rejection with a retry hint of two seconds or more, followed exactly
\* that much later by an admitted check
C7_Witness ==
    \E k \in Keys : \E i \in 1..Len(calls[k]) : \E j \in 1..Len(calls[k]) :
        /\ i < j
        /\ ~calls[k][i].ok
        /\ calls[k][i].retry_after >= 2
        /\ calls[k][j].t - calls[k][i].t = calls[k][i].retry_after * TicksPerSec
        /\ calls[k][j].ok

\* ---------------------------------------------------------------- pipeline
IsPrefix(s, t) == Len(s) <= Len(t) /\ SubSeq(t, 1, Len(s)) = s

\* the order the stages are to run in
FixedOrder ==
    << "RateLimit", "ConstraintCheck", "Authentication", "OriginPolicy",
       "TransportPolicy", "CsrfPolicy", "ContentTypePolicy", "IpReputationPolicy",
       "AdvancedThreatHeuristics", "InputValidation", "ReplayProtection" >>

\* the enabled stages among the first n of the order
EnabledBefore(n) == SelectSeq(SubSeq(FixedOrder, 1, n), StageEnabled)
EnabledStages == EnabledBefore(Len(FixedOrder))

\* the pipeline has answered the request
Decided == pc = 0 /\ response # NoResult

\* what a stage other than the rate limiter and the replay protection has to
\* say about the request, stated from the request alone
VerdictOnRequest(st) ==
    IF st \in PolicyStages
    THEN IF st \in request.faults THEN StageFault(st).error ELSE Ok
    ELSE ValidateRequest(validation, request, NewContext(request.client)).result

\* while a request is evaluated the stages run so far are the enabled stages
\* before the current one, in the fixed order; an accepted request has run
\* every enabled stage and a rejected one a non-empty prefix of them
C8_FixedOrder ==
    /\ pc # 0 => executed = EnabledBefore(pc - 1)
    /\ Decided /\ response = Ok => executed = EnabledStages
    /\ Decided /\ response # Ok =>
           /\ executed # << >>
           /\ IsPrefix(executed, EnabledStages)

\* the answer is the error of the last stage run, and every stage run before
\* it had no objection to the request
C8_FirstFailure ==
    Decided =>
        LET last == executed[Len(executed)]
            passed == IF response = Ok THEN executed
                      ELSE SubSeq(executed, 1, Len(executed) - 1)
        IN  /\ \A i \in 1..Len(passed) :
                   passed[i] \notin {"RateLimit", "ReplayProtection"}
                       => VerdictOnRequest(passed[i]) = Ok
            /\ response # Ok =>
                   CASE last = "RateLimit" -> response.kind = "RateLimitExceeded"
                     [] last = "ReplayProtection" ->
                            /\ response.kind \in {"InvalidInput", "ReplayDetected"}
                            /\ request.has_nonce
                     [] OTHER -> response = VerdictOnRequest(last)

\* the steps of the pipeline: a client out of tokens is answered
\* RateLimitExceeded by the first stage, with nothing else run or touched, and
\* any other client goes on to the second stage; the buckets change in the
\* first stage only; a nonce is recorded only by the last stage, for a
\* request that every enabled stage has let through; and nothing is touched
\* between the answer to one request and the arrival of the next
C8_StageFrame ==
    /\ pc = 1 =>
           IF config.enabled /\ TokensAfterRefill(request.client) < WindowTicks(config)
           THEN /\ response'.kind = "RateLimitExceeded"
                /\ executed' = <<"RateLimit">>
                /\ pc' = 0
                /\ UNCHANGED <<replay, context>>
           ELSE /\ response' = NoResult
                /\ pc' = 2
    /\ buckets' # buckets \/ global_counter' # global_counter => pc = 1
    /\ replay' # replay =>
           /\ pc = Len(FixedOrder)
           /\ response' = Ok
           /\ executed' = EnabledStages
           /\ DOMAIN replay'.nonce_cache =
                  DOMAIN replay.nonce_cache \cup {NonceKey(request.client, request.nonce)}
    /\ pc = 0 => UNCHANGED <<buckets, global_counter, replay>>

Categories == <<"sql", "xss", "command", "path">>

CategoryEnabled(c) ==
    CASE c = "sql"     -> validation.sql_injection_check
      [] c = "xss"     -> validation.xss_check
      [] c = "command" -> validation.command_injection_check
      [] c = "path"    -> validation.path_traversal_check

CategoryMatches(c, input) ==
    CASE c = "sql"     -> ContainsSqlInjection(input)
      [] c = "xss"     -> ContainsXss(input)
      [] c = "command" -> ContainsCommandInjection(input)
      [] c = "path"    -> ContainsPathTraversal(input)

CategoryWeight(c) ==
    CASE c = "sql" -> 40 [] c = "xss" -> 35 [] c = "command" -> 45 [] c = "path" -> 30

CategoryReason(c) ==
    CASE c = "sql"     -> "Potential SQL injection detected"
      [] c = "xss"     -> "Potential XSS attack detected"
      [] c = "command" -> "Potential command injection detected"
      [] c = "path"    -> "Potential path traversal detected"

\* the positions in Categories of the enabled categories that match the input
Hits(input) ==
    {i \in 1..Len(Categories) :
        CategoryEnabled(Categories[i]) /\ CategoryMatches(Categories[i], input)}

\* the enabled categories among the first n, in order
RECURSIVE EnabledUpTo(_)
EnabledUpTo(n) ==
    IF n = 0 THEN << >>
    ELSE EnabledUpTo(n - 1)
         \o (IF CategoryEnabled(Categories[n]) THEN <<Categories[n]>> ELSE << >>)

ScanDone == scan.result # NoResult

\* C9: validate_string looks for the enabled categories in the order SQL
\* injection, XSS, command injection, path traversal and stops at the first
\* that matches: the result is InvalidInput with that category's reason and
\* the given field, the threat score grows by that category's weight alone
\* (40, 35, 45, 30) and no later category is evaluated; an input that matches
\* no enabled category gives Ok and the score it had; and an input containing
\* ' OR '1'='1 gives the SQL-injection error when the SQL check is enabled.
C9_FirstCategoryWins ==
    ScanDone =>
        LET hits == Hits(scan.input)
        IN  /\ hits = {} =>
                /\ scan.result = Ok
                /\ context.threat_score = scan.score_before
                /\ scan.evaluated = EnabledUpTo(Len(Categories))
            /\ hits # {} =>
                LET first == CHOOSE i \in hits : \A j \in hits : i <= j
                IN  /\ scan.result = InvalidInput(CategoryReason(Categories[first]),
                                                  scan.field_name)
                    /\ context.threat_score
                         = scan.score_before + CategoryWeight(Categories[first])
                    /\ scan.evaluated = EnabledUpTo(first)
            /\ (validation.sql_injection_check /\ HasSubstring(scan.input, "' OR '1'='1"))
                => scan.result = InvalidInput(CategoryReason("sql"), scan.field_name)

\* a scan of an input that matches two enabled categories, the earlier of
\* them not the first in the list, on a context that already had a score
C9_Witness ==
    /\ ScanDone
    /\ scan.score_before > 0
    /\ Cardinality(Hits(scan.input)) >= 2
    /\ 1 \notin Hits(scan.input)
    /\ scan.result.kind = "InvalidInput"

\* the input contains "<script" in some letter case
HasScriptTag(input) == HasSubstring(ToLowercase(input), "<script")

SqlNeverAfterXss ==
    \A i, j \in 1..Len(scan.evaluated) :
        (scan.evaluated[i] = "xss" /\ scan.evaluated[j] = "sql") => j < i

\* C10 as stated: with the XSS check enabled, every input containing
\* "<script" in any letter case, whatever else it contains, is rejected with
\* the XSS category.
C10_ScriptTagAlwaysXss ==
    (ScanDone /\ validation.xss_check /\ HasScriptTag(scan.input)) =>
        /\ scan.result = InvalidInput(CategoryReason("xss"), scan.field_name)
        /\ SqlNeverAfterXss

\* C10, amended: with the XSS check enabled, every input containing "<script"
\* in any letter case is rejected with InvalidInput on the given field; the
\* category is SQL injection when the SQL check is enabled and the input also
\* matches an SQL pattern, and XSS otherwise; the SQL patterns are evaluated
\* before the XSS patterns, never after them.
C10_ScriptTagRejected ==
    (ScanDone /\ validation.xss_check /\ HasScriptTag(scan.input)) =>
        /\ scan.result.kind = "InvalidInput"
        /\ scan.result.field = scan.field_name
        /\ IF validation.sql_injection_check /\ ContainsSqlInjection(scan.input)
           THEN /\ scan.result.reason = CategoryReason("sql")
                /\ context.threat_score = scan.score_before + 40
                /\ scan.evaluated = <<"sql">>
           ELSE /\ scan.result.reason = CategoryReason("xss")
                /\ context.threat_score = scan.score_before + 35
                /\ scan.evaluated = EnabledUpTo(2)
        /\ SqlNeverAfterXss

\* a script tag written in mixed case, found after the SQL patterns were run
\* and did not match
C10_Witness ==
    /\ ScanDone
    /\ validation.xss_check /\ validation.sql_injection_check
    /\ HasScriptTag(scan.input)
    /\ ~HasSubstring(scan.input, "<script")
    /\ scan.result.reason = CategoryReason("xss")
    /\ scan.evaluated = <<"sql", "xss">>

\* ---------------------------------------------------------------- sanitize
\* C11: for every input x, sanitize(sanitize(x)) = sanitize(x): the second
\* call returns what the first one returned.
C11_SanitizeIdempotent ==
    Len(sanitized.outputs) = 2 => sanitized.outputs[2] = sanitized.outputs[1]

\* ---------------------------------------------------------------- authentication
\* the request carries a Bearer Authorization header, an X-API-Key header
BearerPresented ==
    /\ HasHeader(auth.request, "authorization")
    /\ StartsWith(GetHeader(auth.request, "authorization"), "Bearer ")
ApiKeyPresented == HasHeader(auth.request, "x-api-key")

\* C12: with authentication enabled, authenticate on a request that carries
\* neither a Bearer Authorization header nor an X-API-Key header returns
\* Ok(None) when require_auth is false and AuthenticationFailed when it is true.
C12_NoCredentials ==
    /\ auth.result # NoResult
    /\ auth.manager.config.enabled
    /\ ~BearerPresented
    /\ ~ApiKeyPresented
    => IF auth.manager.config.require_auth
       THEN auth.result.kind = "AuthenticationFailed"
       ELSE auth.result = Ok /\ auth.user = NoUser

\* a request with a Basic Authorization header and no API key has been
\* refused by a manager that requires authentication and has a JWT secret
\* and API keys configured
C12_Witness ==
    /\ auth.result.kind = "AuthenticationFailed"
    /\ auth.manager.config.enabled
    /\ auth.manager.config.require_auth
    /\ auth.manager.config.has_jwt_secret
    /\ auth.manager.api_keys_hashed # {}
    /\ HasHeader(auth.request, "authorization")
    /\ ~BearerPresented
    /\ ~ApiKeyPresented

\* the credentials the request presents that fail verification: a Bearer
\* token that is no token, is signed with another secret or has expired, an
\* API key that is not a configured one
BadBearer ==
    /\ BearerPresented
    /\ LET value == GetHeader(auth.request, "authorization")
           token == SubSeq(value, 8, Len(value))
       IN  \/ token \notin DOMAIN IssuedTokens
           \/ IssuedTokens[token].secret # auth.manager.config.jwt_secret
           \/ IssuedTokens[token].exp < AuthClock
BadApiKey ==
    /\ ApiKeyPresented
    /\ GetHeader(auth.request, "x-api-key") \notin auth.manager.config.api_keys

\* C13: a request that presents credentials which fail verification is
\* rejected with AuthenticationFailed, whether or not require_auth is set and
\* whether or not a JWT secret or API keys are configured: it is never
\* treated as anonymous or as authenticated.
C13_BadCredentialsRejected ==
    /\ auth.result # NoResult
    /\ auth.manager.config.enabled
    /\ BadBearer \/ BadApiKey
    => auth.result.kind = "AuthenticationFailed"

\* --------------------------------------------------------------------- C14
\* the stage operations the claim lists
StageOperations ==
    { "validate_constraints", "check_cors", "validate_csrf", "validate_content_type",
      "check_ip_reputation", "validate_request", "validate_nonce" }

\* every recorded call left the score where it was or raised it, and started
\* from the score the call before it ended with
C14_CallsNeverLower ==
    /\ \A i \in 1..Len(trial.calls) :
          /\ trial.calls[i].op \in StageOperations
          /\ trial.calls[i].after >= trial.calls[i].before
          /\ i > 1 => trial.calls[i].before = trial.calls[i - 1].after
    /\ Len(trial.calls) > 0 =>
          trial.context.threat_score = trial.calls[Len(trial.calls)].after

\* no step lowers the score of the request's context
C14_StepNeverLowers == trial'.context.threat_score >= trial.context.threat_score

\* C14: within one request the threat score never decreases and is never
\* reset: each stage operation (request constraints, CORS, CSRF, content
\* type, IP reputation, input validation, replay protection) leaves the score
\* unchanged or increases it, whether it returns Ok or an error.
C14_ScoreMonotone == [] C14_CallsNeverLower /\ [][C14_StepNeverLowers]_vars

\* a context that carried a score into a stage operation which failed and
\* raised it, after another operation had returned Ok and left it alone
C14_Witness ==
    /\ Len(trial.calls) = 2
    /\ trial.calls[1].result = Ok
    /\ trial.calls[1].before > 0
    /\ trial.calls[1].after = trial.calls[1].before
    /\ trial.calls[2].result # Ok
    /\ trial.calls[2].after > trial.calls[2].before

\* --------------------------------------------------------------------- C15
\* whether the stage at pc, asked now, objects to the request
StageObjects(st) ==
    CASE st = "RateLimit" ->
            config.enabled /\ TokensAfterRefill(request.client) < WindowTicks(config)
      [] st = "InputValidation" -> VerdictOnRequest(st) # Ok
      [] st = "ReplayProtection" ->
            /\ request.has_nonce
            /\ \/ Len(request.nonce) < MinNonceLen
               \/ Len(request.nonce) > MaxNonceLen
               \/ NonceKey(request.client, request.nonce) \in DOMAIN replay.nonce_cache
      [] OTHER -> st \in request.faults

\* a stage that is switched off or has no objection passes the request on,
\* with a score no lower than before, and the last of them returns success;
\* only a stage that objects gives an error
C15_StageStep ==
    pc # 0 =>
        IF StageEnabled(FixedOrder[pc]) /\ StageObjects(FixedOrder[pc])
        THEN response' # Ok /\ response' # NoResult
        ELSE /\ context'.threat_score >= context.threat_score
             /\ context'.client_ip = context.client_ip
             /\ IF pc = Len(FixedOrder)
                THEN response' = Ok /\ pc' = 0
                ELSE response' = NoResult /\ pc' = pc + 1

\* the score a request that the pipeline lets through has accumulated
AccumulatedScore ==
    IF StageEnabled("AdvancedThreatHeuristics") THEN request.suspicion ELSE 0

\* an accepted request comes back with its context and the score it
\* accumulated, whatever the threat detector makes of that score
C15_SuccessKeepsContext ==
    Decided /\ response = Ok =>
        /\ context.client_ip = request.client
        /\ context.threat_score = AccumulatedScore
        /\ Analyze([enabled |-> TRUE], context).total_score >= context.threat_score

\* C15: a request for which every enabled stage returns Ok is returned to the
\* caller as a success together with its context, whatever threat score has
\* accumulated; the pipeline rejects a request only because an individual
\* stage failed, never because the accumulated score reaches some value.
C15_ScoreIsAdvisory == [] C15_SuccessKeepsContext /\ [][C15_StageStep]_vars

\* an accepted request whose context carries a score that the threat
\* detector rates a threat of high severity
C15_Witness ==
    /\ Decided
    /\ response = Ok
    /\ executed = EnabledStages
    /\ context.threat_score > 30
    /\ Analyze([enabled |-> TRUE], context).is_threat
    /\ Analyze([enabled |-> TRUE], context).severity = "High"
    /\ Len(Analyze([enabled |-> TRUE], context).indicators) = 2

\* --------------------------------------------------------------------- C16
\* whether the monitor records the security events it is told of
MonitorRecords == monitor.config.enabled /\ monitor.config.log_security_events

\* a rejected request has been reported to the monitor once, with the final
\* context and the error that is the answer; no other request has been
\* reported
C16_ReportedOnce ==
    IF Decided /\ response # Ok
    THEN /\ Len(notified) = 1
         /\ notified[1].error = response
         /\ notified[1].context = context
         /\ Len(notified[1].emitted) = IF MonitorRecords THEN 1 ELSE 0
         /\ \A i \in 1..Len(notified[1].emitted) :
                /\ notified[1].emitted[i].client_ip = request.client
                /\ notified[1].emitted[i].level = "warn" =>
                       notified[1].emitted[i].threat_score = context.threat_score
    ELSE notified = << >>

\* the monitor counts one security event for the step that rejects a request,
\* when it records events, and none for any other step
C16_CountedOnce ==
    monitor'.security_event_counter =
        IF response = NoResult /\ response' \notin {Ok, NoResult} /\ MonitorRecords
        THEN monitor.security_event_counter + 1
        ELSE monitor.security_event_counter

\* C16: for every request the pipeline rejects, the logging/metrics
\* collaborator is notified exactly once, with the final context and the
\* triggering error; for a request that is not rejected, stages that only
\* added score cause no notification.
C16_NotifiedExactlyOnce == [] C16_ReportedOnce /\ [][C16_CountedOnce]_vars

\* a second rejected request, reported with the score its failing stage
\* added, after which the monitor has counted two events
C16_Witness ==
    /\ Decided
    /\ response # Ok
    /\ context.threat_score > 0
    /\ Len(notified) = 1
    /\ Len(notified[1].emitted) = 1
    /\ notified[1].emitted[1].level = "warn"
    /\ monitor.security_event_counter = 2

\* an accepted request that the threat heuristics scored without rejecting
\* it, and of which the monitor was told nothing
C16_QuietWitness ==
    /\ Decided
    /\ response = Ok
    /\ context.threat_score > 0
    /\ notified = << >>

\* --------------------------------------------------------------------- C17
\* the request declares a payload or carries a header value over the limit
Oversized(vc, req) ==
    \/ /\ HasHeader(req, "content-length")
       /\ ParseUsize(GetHeader(req, "content-length")).ok
       /\ ParseUsize(GetHeader(req, "content-length")).n > vc.max_payload_size
    \/ \E i \in 1..Len(req.headers) : Len(req.headers[i].value) > vc.max_header_size

\* C17: validate_request rejects a request whose Content-Length exceeds
\* max_payload_size, or one of whose header values is longer than
\* max_header_size, with InvalidInput before any injection-pattern matching
\* has run on any part of the request.
C17_OversizedBeforePatterns ==
    \A i \in 1..Len(trial.calls) :
        trial.calls[i].op = "validate_request" /\ Oversized(TrialValidation, trial.request)
            => /\ trial.calls[i].result.kind = "InvalidInput"
               /\ trial.calls[i].scanned = << >>

\* --------------------------------------------------------------------- C18
\* ten windows of the configuration, in ticks
TenWindows == 10 * config.window_secs * TicksPerSec

\* a bucket leaves the map only when a sweep reaches it more than ten windows
\* after its last refill, which is more than ten windows after the last check
\* on its key, and a sweep that reaches such a bucket removes it; every other
\* bucket stays as it is, unless a check works on it
C18_VisitFrame ==
    /\ \A k \in DOMAIN buckets :
          k \notin DOMAIN buckets' =>
              /\ sweep.active /\ k \in sweep.pending /\ k \notin sweep'.pending
              /\ now - buckets[k].last_refill > TenWindows
              /\ now - sweep.last_check[k] > TenWindows
              /\ \A j \in DOMAIN buckets \ {k} :
                     j \in DOMAIN buckets' /\ buckets'[j] = buckets[j]
    /\ \A k \in sweep.pending \ sweep'.pending :
          IF k \in DOMAIN buckets /\ now - buckets[k].last_refill > TenWindows
          THEN k \notin DOMAIN buckets'
          ELSE buckets' = buckets
    /\ sweep'.checks = sweep.checks =>
          \A k \in DOMAIN buckets' : k \in DOMAIN buckets /\ buckets'[k] = buckets[k]

\* once a sweep has returned, every bucket still in the map was checked no
\* more than ten windows before the sweep began, or since
C18_SweptClean ==
    ~sweep.active /\ sweep.sweeps > 0 =>
        \A k \in DOMAIN buckets : sweep.started - sweep.last_check[k] <= TenWindows

\* the last refill of a bucket is the last check on its key
C18_RefillIsLastCheck ==
    \A k \in DOMAIN buckets : buckets[k].last_refill = sweep.last_check[k]

\* C18: under any interleaving with check, cleanup_old_buckets removes
\* exactly the buckets whose last refill is more than 10 * window_duration in
\* the past and keeps every other bucket unchanged; a bucket that was checked
\* within the last ten windows is never removed.
C18_SweepRemovesExpired ==
    [] (C18_SweptClean /\ C18_RefillIsLastCheck) /\ [][C18_VisitFrame]_vars

\* a sweep has returned that removed the bucket of one key and kept the
\* bucket of another, which was checked after the sweep had begun
C18_Witness ==
    /\ ~sweep.active
    /\ sweep.sweeps > 0
    /\ sweep.removed # {}
    /\ \E k \in DOMAIN buckets : k \notin sweep.removed /\ sweep.last_check[k] > sweep.started
    /\ \E k \in sweep.removed : k \notin DOMAIN buckets

\* --------------------------------------------------------------------- C19
\* the sub-flags of the validation and of the threat detection
ValidationSubFlags(vc) ==
    { vc.sql_injection_check, vc.xss_check, vc.command_injection_check,
      vc.path_traversal_check, vc.sanitize_input }
ThreatDetectionSubFlags(tc) ==
    { tc.anomaly_detection, tc.bot_detection, tc.known_patterns, tc.block_suspicious }

\* C19: strict_mode(), applied to any configuration, yields a configuration
\* in which every validation sub-flag and every threat-detection sub-flag is
\* on, whatever values those flags had before.
C19_StrictModeAllOn ==
    /\ settings.calls # << >>
    /\ settings.calls[Len(settings.calls)] = "strict_mode"
    => /\ ValidationSubFlags(settings.config.validation) = {TRUE}
       /\ ThreatDetectionSubFlags(settings.config.threat_detection) = {TRUE}

\* --------------------------------------------------------------------- C20
\* the nonce has the length validate_nonce asks for (its characters are
\* letters and digits)
WellFormedNonce(n) == Len(n) >= 16 /\ Len(n) <= 256

\* the calls before call j that presented the same nonce for the same client
\* and were accepted
AcceptedBefore(j) ==
    { i \in 1..(j - 1) :
        /\ nonces.calls[i].client_id = nonces.calls[j].client_id
        /\ nonces.calls[i].nonce = nonces.calls[j].nonce
        /\ nonces.calls[i].result = Ok }

\* a well-formed nonce is accepted the first time, and rejected as a replay
\* every time after that
C20_EveryReplayRejected ==
    \A j \in 1..Len(nonces.calls) :
        WellFormedNonce(nonces.calls[j].nonce) =>
            IF AcceptedBefore(j) = {}
            THEN nonces.calls[j].result = Ok
            ELSE nonces.calls[j].result.kind = "ReplayDetected"

\* call m was accepted and left the cache with more than ten times
\* max_nonces_per_ip entries
GrewBeyondLimit(m) ==
    /\ nonces.calls[m].result = Ok
    /\ nonces.calls[m].len + 1 > 10 * 1000

\* the last of a non-empty set of calls
LastOf(S) == CHOOSE i \in S : \A k \in S : k <= i

\* C20: validate_nonce accepts a well-formed nonce the first time a client
\* presents it and rejects every later presentation of the same nonce by the
\* same client with ReplayDetected, after any sequence of intervening
\* validate_nonce calls for any clients and nonces, provided the later
\* presentation comes less than 2 * timestamp_window seconds after the nonce
\* was accepted, or no call since then has left the cache with more than
\* 10 * max_nonces_per_ip entries.
C20_ReplayRejectedWhileKept ==
    \A j \in 1..Len(nonces.calls) :
        WellFormedNonce(nonces.calls[j].nonce) =>
            IF AcceptedBefore(j) = {}
            THEN nonces.calls[j].result = Ok
            ELSE LET i == LastOf(AcceptedBefore(j))
                 IN  \/ nonces.calls[j].at - nonces.calls[i].at
                            < 2 * nonces.rp.timestamp_window
                     \/ \A m \in i..(j - 1) : ~GrewBeyondLimit(m)
                     => nonces.calls[j].result.kind = "ReplayDetected"

\* a nonce is rejected as a replay a second after it was accepted, although
\* the call that accepted it and a call for another client in between each
\* left the cache beyond its limit and had it cleaned up
C20_Witness ==
    /\ Len(nonces.calls) = 3
    /\ nonces.calls[1].result = Ok
    /\ GrewBeyondLimit(1)
    /\ nonces.calls[2].client_id # nonces.calls[1].client_id
    /\ GrewBeyondLimit(2)
    /\ nonces.calls[3].client_id = nonces.calls[1].client_id
    /\ nonces.calls[3].nonce = nonces.calls[1].nonce
    /\ nonces.calls[3].at = nonces.calls[1].at + 1
    /\ nonces.calls[3].result.kind = "ReplayDetected"

\* --------------------------------------------------------------------- C21
\* the timestamp is no older than the timestamp window
NotTooOld(clock, window, ts) ==
    clock <= window \/ ~LessU64(ts, U64Of(clock - window))

\* the timestamp is no more than 60 seconds ahead of the clock
NotTooNew(clock, ts) == ~LessU64(U64Of(clock + 60), ts)

\* C21: validate_timestamp returns Ok exactly when
\* now - timestamp_window <= ts <= now + 60; an older timestamp is rejected
\* with ReplayDetected and 50 added to the threat score, a timestamp more than
\* 60 seconds in the future with InvalidInput on field "timestamp" and 35
\* added to the threat score
C21_TimestampWindow ==
    \A i \in 1..Len(stamps.calls) :
        LET c      == stamps.calls[i]
            window == stamps.rp.timestamp_window
        IN  /\ c.result.kind = "Ok" <=>
                   NotTooOld(stamps.clock, window, c.timestamp)
                       /\ NotTooNew(stamps.clock, c.timestamp)
            /\ ~NotTooOld(stamps.clock, window, c.timestamp) =>
                   c.result.kind = "ReplayDetected" /\ c.after = c.before + 50
            /\ ~NotTooNew(stamps.clock, c.timestamp) =>
                   /\ c.result.kind = "InvalidInput"
                   /\ c.result.field = "timestamp"
                   /\ c.after = c.before + 35

\* --------------------------------------------------------------------- C28
\* the timestamps within 600 seconds of u64::MAX
NearU64Max(ts) == ~LessU64(ts, SubU64(U64Max, U64Of(600)).value)

\* C28: validate_timestamp classifies every u64 timestamp without overflow or
\* underflow: no sum and no difference wraps or panics, and a timestamp near
\* u64::MAX is rejected as in the future (InvalidInput), never as too old
\* (ReplayDetected) and never accepted
C28_NoOverflow ==
    \A i \in 1..Len(stamps.calls) :
        LET c == stamps.calls[i]
        IN  /\ c.wrapped = {}
            /\ c.result.kind # "panic"
            /\ NearU64Max(c.timestamp) =>
                   c.result.kind = "InvalidInput" /\ c.result.field = "timestamp"

\* --------------------------------------------------------------------- C22
\* the origin is a subdomain matching the wildcard entry: it has what the
\* entry has before its "*", then something, then what the entry has from
\* the "." after the "*" on
MatchesWildcard(origin, entry) ==
    \E p \in 1..(Len(entry) - 1) :
        /\ SubSeq(entry, p, p + 1) = "*."
        /\ StartsWith(origin, SubSeq(entry, 1, p - 1))
        /\ EndsWith(origin, SubSeq(entry, p + 1, Len(entry)))
        /\ Len(origin) > Len(entry) - 1

\* C22: is_origin_allowed returns true for an origin that is one of the
\* allowed origins or a subdomain matching an allowed wildcard entry, and
\* false for every other origin unless allow_all_origins is set
C22_OriginAllowed ==
    \A i \in 1..Len(asked.calls) :
        LET c == asked.calls[i]
        IN  c.allowed <=>
                \/ asked.enforcer.allow_all_origins
                \/ c.origin \in asked.enforcer.allowed_origins
                \/ \E entry \in asked.enforcer.allowed_origins :
                       MatchesWildcard(c.origin, entry)

\* --------------------------------------------------------------------- C23
\* two responses built from errors of the same kind, with the same
\* include_details, agree on error, code and details whatever the reasons
C23_ReasonNeverShows ==
    \A a, b \in errors.responses :
        a.error.kind = b.error.kind /\ a.include_details = b.include_details =>
            /\ a.response.error = b.response.error
            /\ a.response.code = b.response.code
            /\ a.response.details = b.response.details

\* a response has detail text only if include_details was set, and never for
\* a ConfigError or an InternalError
C23_DetailsOnlyOnRequest ==
    \A a \in errors.responses :
        a.response.details.some =>
            a.include_details /\ a.error.kind \notin {"ConfigError", "InternalError"}

\* the gate is true exactly for an authenticated caller with a score below 50
C23_GateIsAuthenticatedAndLow ==
    \A g \in errors.gates :
        g.exposed <=> g.is_authenticated /\ g.threat_score < 50

\* C23: the response built by from_security_error never depends on the reason
\* text carried by the error, it carries detail text only when
\* include_details is set and never for ConfigError or InternalError, and
\* should_expose_details(score, authenticated) is true exactly when the caller
\* is authenticated and the threat score is below 50
C23_NoInternalDetail ==
    /\ C23_ReasonNeverShows
    /\ C23_DetailsOnlyOnRequest
    /\ C23_GateIsAuthenticatedAndLow

\* two internal errors with different reasons were turned into responses with
\* include_details set, and the gate was asked for an authenticated caller
\* with a low score
C23_Witness ==
    /\ \E a, b \in errors.responses :
           /\ a.error.kind = "InternalError" /\ b.error.kind = "InternalError"
           /\ a.error.reason # b.error.reason
           /\ a.include_details /\ b.include_details
    /\ \E g \in errors.gates : g.exposed

\* --------------------------------------------------------------------- C24
\* C24: whether the store started empty or was loaded from an existing
\* storage file, after any sequence of store_blocked_request,
\* add_blocked_request and clear_blocked_requests calls it holds at most
\* max_entries records, in append order with the most recent last, and an
\* append that would exceed max_entries drops the oldest record and no other
C24_AtMostMaxEntries ==
    /\ Len(store.requests) <= store.max_entries
    /\ \A i, j \in 1..Len(store.requests) :
           i < j => store.requests[i].id < store.requests[j].id
    /\ store.last.op = "append" =>
           /\ store.last.after # << >> =>
                  store.last.after[Len(store.last.after)].id = store.made
           /\ IF Len(store.last.before) + 1 > store.max_entries
              THEN SubSeq(store.last.after, 1, Len(store.last.after) - 1)
                       = Tail(store.last.before)
              ELSE SubSeq(store.last.after, 1, Len(store.last.after) - 1)
                       = store.last.before

\* --------------------------------------------------------------------- C25
\* the fields of a request in the order of the scan: the URI, each header
\* value, the URL-decoded query string, the raw query string
RequestFields(req) ==
    <<[field |-> "uri", text |-> UriString(req)]>>
        \o [i \in 1..Len(req.headers) |->
               [field |-> req.headers[i].name, text |-> req.headers[i].value]]
        \o (IF req.has_query /\ UrlDecode(req.query).ok
            THEN <<[field |-> "query", text |-> UrlDecode(req.query).s]>>
            ELSE << >>)
        \o (IF req.has_query
            THEN <<[field |-> "query", text |-> req.query]>>
            ELSE << >>)

\* the weight of the first category, of those switched on, that the text
\* matches; 0 when it matches none
FirstWeight(vc, text) ==
    IF vc.sql_injection_check /\ ContainsSqlInjection(text) THEN 40
    ELSE IF vc.xss_check /\ ContainsXss(text) THEN 35
    ELSE IF vc.command_injection_check /\ ContainsCommandInjection(text) THEN 45
    ELSE IF vc.path_traversal_check /\ ContainsPathTraversal(text) THEN 30
    ELSE 0

\* the request was turned away for its size
SizeRejected(result) ==
    result.kind = "InvalidInput"
        /\ (result.field = "body" \/ result.reason = "Header value too large")

\* C25: validate_request scans the URI, then each header value, then the
\* URL-decoded query string, then the raw query string, and aborts at the
\* first field/category match: it returns that InvalidInput with the name of
\* the matching field and adds exactly one category weight to the threat
\* score; a request is passed only if none of its fields matches
C25_FirstFieldMatchAborts ==
    \A n \in 1..Len(trial.calls) :
        LET c      == trial.calls[n]
            fields == RequestFields(trial.request)
            hits   == {i \in 1..Len(fields) :
                          FirstWeight(TrialValidation, fields[i].text) > 0}
            first  == CHOOSE i \in hits : \A j \in hits : i <= j
        IN  c.op = "validate_request" =>
                /\ c.result.kind = "Ok" => hits = {}
                /\ c.result.kind # "Ok" /\ ~SizeRejected(c.result) =>
                       /\ hits # {}
                       /\ c.result.kind = "InvalidInput"
                       /\ c.result.field = fields[first].field
                       /\ c.after = c.before
                              + FirstWeight(TrialValidation, fields[first].text)

\* --------------------------------------------------------------------- C26
\* the admissions of key k recorded at clock readings in [a, b]
RECURSIVE AdmittedAmidSweeps(_, _, _, _)
AdmittedAmidSweeps(k, a, b, m) ==
    IF m = 0 THEN 0
    ELSE (IF a <= sweep.admitted[k][m].t /\ sweep.admitted[k][m].t <= b
          THEN sweep.admitted[k][m].n ELSE 0)
         + AdmittedAmidSweeps(k, a, b, m - 1)

\* the fresh bucket a check would now create for a key whose bucket was
\* removed holds no more tokens than the removed bucket would hold after refill
C26_FreshNoFuller ==
    \A k \in Keys : \A b \in sweep.forgotten[k] :
        k \notin DOMAIN buckets =>
            config.burst_size * WindowTicks(config)
                <= Min(b.tokens + (now - b.last_refill) * config.requests_per_window,
                       config.burst_size * WindowTicks(config))

\* the admissions of a key between any two of them number at most
\* burst_size + floor(W * requests_per_window / window_duration)
C26_BoundAcrossSweeps ==
    \A k \in Keys : \A i, j \in 1..Len(sweep.admitted[k]) :
        i <= j =>
            AdmittedAmidSweeps(k, sweep.admitted[k][i].t, sweep.admitted[k][j].t,
                               Len(sweep.admitted[k]))
                <= config.burst_size
                   + ((sweep.admitted[k][j].t - sweep.admitted[k][i].t)
                          * config.requests_per_window) \div WindowTicks(config)

\* C26: removing an idle bucket with cleanup_old_buckets never lets its key be
\* admitted more often than if the bucket had been kept: the fresh bucket of
\* the key's next check holds no more tokens than the removed bucket would
\* have held after refill, and the bound of
\* burst_size + floor(W * refill rate) admissions per window W holds across
\* sweeps for every configuration, burst_size > 10 * requests_per_window
\* included
C26_SweepNeverAdmitsMore == C26_FreshNoFuller /\ C26_BoundAcrossSweeps

\* --------------------------------------------------------------------- C27
\* a validate_nonce call that returns an error leaves the protection, its
\* nonce cache included, as it was
C27_ErrorKeepsCache ==
    Len(nonces'.calls) = Len(nonces.calls) + 1
        /\ nonces'.calls[Len(nonces'.calls)].result # Ok
    => nonces'.rp = nonces.rp

\* a presentation fails as a replay only if the same client presented the same
\* nonce before and was accepted, and fails otherwise only for its own form
C27_OnlyOwnReplayFails ==
    \A j \in 1..Len(nonces'.calls) :
        LET c == nonces'.calls[j]
        IN  /\ c.result.kind = "ReplayDetected" =>
                  \E i \in 1..(j - 1) :
                      /\ nonces'.calls[i].client_id = c.client_id
                      /\ nonces'.calls[i].nonce = c.nonce
                      /\ nonces'.calls[i].result = Ok
            /\ c.result.kind = "InvalidInput" =>
                  \/ ~WellFormedNonce(c.nonce)
                  \/ \E p \in 1..Len(c.nonce) :
                         CharAt(c.nonce, p) \notin AsciiAlphanumeric \cup {"-", "_"}

\* C27: a validate_nonce call that returns an error (a nonce that is too
\* short or too long, has a character that is not allowed, or is replayed)
\* leaves the nonce cache unchanged, so that a rejected presentation never
\* makes a later presentation of a different nonce, or of the same nonce by a
\* different client, fail
C27_RejectionLeavesNoTrace ==
    [][C27_ErrorKeepsCache /\ C27_OnlyOwnReplayFails]_vars

\* a nonce was accepted, its second presentation by the same client was
\* rejected as a replay, and the presentation of the same nonce by the other
\* client that followed was accepted
C27_Witness ==
    /\ Len(nonces.calls) = 3
    /\ nonces.calls[1].result = Ok
    /\ nonces.calls[2].result.kind = "ReplayDetected"
    /\ nonces.calls[3].result = Ok
    /\ nonces.calls[3].nonce = nonces.calls[2].nonce
    /\ nonces.calls[3].client_id # nonces.calls[2].client_id

\* --------------------------------------------------------------------- C29
\* C29: check_ip_reputation applies its checks in the order whitelist,
\* blacklist, VPN indicators, proxy indicators: a whitelisted client IP passes
\* with the threat score unchanged even when it is blacklisted or the request
\* carries VPN or proxy indicators; otherwise a blacklisted IP is rejected
\* with IpBlocked (+80) before VPN detection (VpnDetected, +25), which comes
\* before proxy detection (ProxyDetected, +20), and exactly one of these
\* scores is added per rejection
C29_WhitelistThenBlacklist ==
    \A n \in 1..Len(trial.calls) :
        LET c           == trial.calls[n]
            ip          == trial.request.client
            whitelisted == ip \in TrialIpReputation.whitelisted_ips
            blacklisted == ip \in TrialIpReputation.blacklisted_ips
            vpn         == IsVpnDetected(trial.request)
            proxy       == IsProxyDetected(trial.request)
        IN  c.op = "check_ip_reputation" =>
                /\ whitelisted => c.result = Ok /\ c.after = c.before
                /\ ~whitelisted /\ blacklisted =>
                       c.result.kind = "IpBlocked" /\ c.after = c.before + 80
                /\ ~whitelisted /\ ~blacklisted /\ vpn =>
                       c.result.kind = "VpnDetected" /\ c.after = c.before + 25
                /\ ~whitelisted /\ ~blacklisted /\ ~vpn /\ proxy =>
                       c.result.kind = "ProxyDetected" /\ c.after = c.before + 20
                /\ ~whitelisted /\ ~blacklisted /\ ~vpn /\ ~proxy =>
                       c.result = Ok /\ c.after = c.before

\* a client IP on both lists, whose request carries VPN and proxy indicators,
\* was checked and passed
C29_Witness ==
    /\ trial.request.client \in TrialIpReputation.whitelisted_ips
    /\ trial.request.client \in TrialIpReputation.blacklisted_ips
    /\ IsVpnDetected(trial.request) /\ IsProxyDetected(trial.request)
    /\ \E n \in 1..Len(trial.calls) :
           trial.calls[n].op = "check_ip_reputation" /\ trial.calls[n].result = Ok

\* --------------------------------------------------------------------- C30
\* the snapshot the collection before a summary's own one stored, given the
\* history as it was before the summary; the summary's current one when that
\* history was empty
PrecedingSnapshot(s) ==
    IF Len(s.before) > 0 THEN s.before[Len(s.before)] ELSE s.summary.current

\* C30: get_summary reports as previous the snapshot stored by the collection
\* that preceded the current one (its own current only when the history was
\* empty), so the trend is "increasing" exactly when the block rate of the
\* current snapshot exceeds that of the preceding stored snapshot; the
\* history never holds more than 1440 snapshots and drops the oldest first
C30_PreviousIsPreceding ==
    /\ \A n \in 1..Len(metrics.summaries) :
           LET s == metrics.summaries[n]
           IN  /\ s.summary.previous = PrecedingSnapshot(s)
               /\ s.summary.trend = "increasing" <=>
                      RateExceeds(s.summary.current.block_rate,
                                  PrecedingSnapshot(s).block_rate)
    /\ Len(metrics.history) <= HistoryCapacity
    /\ \A i \in 1..Len(metrics.history) :
           metrics.history[i].serial = metrics.collected - Len(metrics.history) + i

====
